---- MODULE Spec2Model ----
(***************************************************************************)
(* Bulgarian-Waters-Service: the TTL cache (cacheManager.js) and the       *)
(* retrieval layer built on it (sparqlClient.js, index.js, resolvers).     *)
(*                                                                         *)
(* Conventions.                                                            *)
(*  - A JavaScript string is the sequence of its UTF-16 code units.        *)
(*  - A JavaScript number that may be NaN is a record [nan, v]; the clock  *)
(*    (Date.now()) is a plain integer, in milliseconds since the process   *)
(*    started.                                                             *)
(*  - Every cached value is a record with a field "kind" (the run-time     *)
(*    type of the JavaScript value): null, a raw SPARQL result, an array   *)
(*    of features, one feature, or an opaque value of the cache API.       *)
(*  - The Map this.cache is the set of its entries [key, data, expiryTime];*)
(*    MapSet, MapDelete, MapHas and MapGet are the Map's own operations.   *)
(***************************************************************************)
EXTENDS Integers, Sequences, FiniteSets, TLC

VARIABLES
    cache,        \* CacheManager.cache: the Map's entries
    defaultTTL,   \* CacheManager.defaultTTL
    now,          \* Date.now()
    last,         \* the last call made on the cache API, with what it returned
    hist,         \* per key, the most recent set() since the last clear()
    preload,      \* the run of preloadCache() made by serverWillStart
    started,      \* whether the server is listening
    req           \* the requests being served, one per slot

cvars == <<cache, defaultTTL, now, last, hist>>
svars == <<preload, started, req>>
vars  == <<cache, defaultTTL, now, last, hist, preload, started, req>>

-----------------------------------------------------------------------------
(* Bounds of the model.                                                    *)

MaxHalfDays == 1      \* the clock passes a 12 hours' mark at most this often
MaxMs       == 1      \* and advances by single milliseconds at most this often
NumReq      == 1      \* requests in progress at once
NumConc     == 2      \* requests in progress at once, where they race

-----------------------------------------------------------------------------
(* JavaScript numbers.                                                     *)

NaN    == [nan |-> TRUE, v |-> 0]
Num(n) == [nan |-> FALSE, v |-> n]

\* Date.now() + ttl
Plus(t, ttl) == IF ttl.nan THEN NaN ELSE Num(t + ttl.v)

\* Date.now() > expiryTime   (every comparison with NaN is false)
Later(t, x) == (~x.nan) /\ t > x.v

\* F applied to the value of x, which is worked out once
Let(x, F(_)) == CHOOSE r \in {F(v) : v \in {x}} : TRUE

Null == [kind |-> "null"]

\* ToBoolean of a cached value: null is falsy, every object and array truthy.
Truthy(d) == d.kind # "null"

-----------------------------------------------------------------------------
(* Strings used as text.                                                   *)

IsDigit(c) == c >= 48 /\ c <= 57

RECURSIVE DigitsValue(_, _)
\* the value of the longest prefix of decimal digits of s, from accumulator acc
DigitsValue(s, acc) ==
    IF s = <<>> \/ ~IsDigit(Head(s)) THEN acc
    ELSE DigitsValue(Tail(s), acc * 10 + (Head(s) - 48))

RECURSIVE SkipSpaces(_)
SkipSpaces(s) == IF s # <<>> /\ Head(s) = 32 THEN SkipSpaces(Tail(s)) ELSE s

\* parseInt(env, 10); env is {} when the variable is not set, {s} otherwise.
parseInt(env) ==
    IF env = {} THEN NaN
    ELSE LET s    == SkipSpaces(CHOOSE x \in env : TRUE)
             neg  == s # <<>> /\ Head(s) = 45
             body == IF s # <<>> /\ Head(s) \in {43, 45} THEN Tail(s) ELSE s
         IN  IF body = <<>> \/ ~IsDigit(Head(body)) THEN NaN
             ELSE Num(IF neg THEN 0 - DigitsValue(body, 0) ELSE DigitsValue(body, 0))

\* process.env.CACHE_TTL: not set, "abc", "3600000"
EnvCacheTTL == { {}, {<<97, 98, 99>>}, {<<51, 54, 48, 48, 48, 48, 48>>} }

-----------------------------------------------------------------------------
(* Numbers with a fraction, as parseFloat gives them: m * 10^e with m not  *)
(* a multiple of 10 (0 is m = 0, e = 0; -0 is not told from 0), NaN, and   *)
(* the two infinities (m is the sign).                                     *)

RECURSIVE Normal(_, _)
Normal(m, e) ==
    IF m = 0 THEN [m |-> 0, e |-> 0]
    ELSE IF m % 10 = 0 THEN Normal(m \div 10, e + 1)
    ELSE [m |-> m, e |-> e]

Float(m, e) ==
    Let(Normal(m, e), LAMBDA n : [nan |-> FALSE, inf |-> FALSE, m |-> n.m, e |-> n.e])
FloatNaN       == [nan |-> TRUE, inf |-> FALSE, m |-> 0, e |-> 0]
Infinity(sign) == [nan |-> FALSE, inf |-> TRUE, m |-> sign, e |-> 0]

\* ToBoolean of a number: 0 and NaN are falsy
TruthyNumber(x) == ~x.nan /\ (x.inf \/ x.m # 0)

\* the white space and line terminators parseFloat skips
IsWhiteSpace(c) ==
    c \in {9, 10, 11, 12, 13, 32, 160, 5760, 8232, 8233, 8239, 8287, 12288, 65279}
    \/ (c >= 8192 /\ c <= 8202)

RECURSIVE SkipWhiteSpace(_)
SkipWhiteSpace(s) == IF s # <<>> /\ IsWhiteSpace(Head(s)) THEN SkipWhiteSpace(Tail(s)) ELSE s

RECURSIVE DigitRun(_, _)
\* how many decimal digits s has from index i on
DigitRun(s, i) == IF i <= Len(s) /\ IsDigit(s[i]) THEN 1 + DigitRun(s, i + 1) ELSE 0

\* the value of the exponent part that body has at index at ([eE], a sign
\* or none, digits); 0 when it has none there
exponentAt(body, at) ==
    IF at <= Len(body) /\ body[at] \in {69, 101}
    THEN Let(IF at < Len(body) /\ body[at + 1] \in {43, 45} THEN at + 2 ELSE at + 1,
             LAMBDA from :
         Let(DigitRun(body, from), LAMBDA n :
             IF n = 0 THEN 0
             ELSE IF body[at + 1] = 45
             THEN 0 - DigitsValue(SubSeq(body, from, from + n - 1), 0)
             ELSE DigitsValue(SubSeq(body, from, from + n - 1), 0)))
    ELSE 0

\* the number of the decimal literal body starts with (digits, a fraction,
\* an exponent), negated when neg; NaN when it starts with none
decimal(body, neg) ==
    Let(DigitRun(body, 1), LAMBDA n1 :
    Let(n1 < Len(body) /\ body[n1 + 1] = 46, LAMBDA hasDot :
    Let(IF hasDot THEN DigitRun(body, n1 + 2) ELSE 0, LAMBDA n2 :
        IF n1 + n2 = 0 THEN FloatNaN
        ELSE Let(DigitsValue(SubSeq(body, 1, n1) \o SubSeq(body, n1 + 2, n1 + 1 + n2), 0),
                 LAMBDA m :
             Let(exponentAt(body, n1 + (IF hasDot THEN 1 + n2 ELSE 0) + 1), LAMBDA exp :
                 Float(IF neg THEN 0 - m ELSE m, exp - n2))))))

\* parseFloat(string): the longest prefix, after white space, that is a
\* decimal literal or a signed Infinity
parseFloat(string) ==
    Let(SkipWhiteSpace(string), LAMBDA s :
    Let(s # <<>> /\ Head(s) = 45, LAMBDA neg :
    Let(IF s # <<>> /\ Head(s) \in {43, 45} THEN Tail(s) ELSE s, LAMBDA body :
        IF Len(body) >= 8 /\ SubSeq(body, 1, 8) = <<73, 110, 102, 105, 110, 105, 116, 121>>
        THEN Infinity(IF neg THEN 0 - 1 ELSE 1)
        ELSE decimal(body, neg))))

-----------------------------------------------------------------------------
(* The Map (this.cache).                                                   *)

MapHas(m, key)    == \E e \in m : e.key = key
MapGet(m, key)    == CHOOSE e \in m : e.key = key
MapDelete(m, key) == {e \in m : e.key # key}
MapSet(m, key, val) ==
    MapDelete(m, key) \cup {[key |-> key, data |-> val.data, expiryTime |-> val.expiryTime]}

-----------------------------------------------------------------------------
(* CacheManager.                                                           *)

\* set that adds the new entry beside the one already stored under the key
set_KeepsOld(m, key, data, ttl, t) ==
    m \cup {[key |-> key, data |-> data, expiryTime |-> Plus(t, ttl)]}

\* set(key, data, ttl) at time t: the Map afterwards (the call returns data)
set(m, key, data, ttl, t) ==
    MapSet(m, key, [data |-> data, expiryTime |-> Plus(t, ttl)])

\* get that treats an entry as expired from its expiry time on (>= for >)
get_ExpiresEarly(m, key, t) ==
    IF ~MapHas(m, key) THEN [data |-> Null, cache |-> m]
    ELSE LET cacheEntry == MapGet(m, key)
         IN  IF (~cacheEntry.expiryTime.nan) /\ t >= cacheEntry.expiryTime.v
             THEN [data |-> Null, cache |-> MapDelete(m, key)]
             ELSE [data |-> cacheEntry.data, cache |-> m]

\* get that reports an expired entry as absent but leaves it in the Map
get_NoEviction(m, key, t) ==
    IF ~MapHas(m, key) THEN [data |-> Null, cache |-> m]
    ELSE LET cacheEntry == MapGet(m, key)
         IN  IF Later(t, cacheEntry.expiryTime)
             THEN [data |-> Null, cache |-> m]
             ELSE [data |-> cacheEntry.data, cache |-> m]

\* get(key) at time t: what it returns and the Map afterwards
get(m, key, t) ==
    IF ~MapHas(m, key) THEN [data |-> Null, cache |-> m]
    ELSE LET cacheEntry == MapGet(m, key)
         IN  IF Later(t, cacheEntry.expiryTime)
             THEN [data |-> Null, cache |-> MapDelete(m, key)]
             ELSE [data |-> cacheEntry.data, cache |-> m]

\* cleanup that also removes the entries expiring at the very call time
cleanupExpiredEntries_AtExpiry(m, t) ==
    {e \in m : ~((~e.expiryTime.nan) /\ t >= e.expiryTime.v)}

\* cleanup with its comparison turned round: the expired entries stay
cleanupExpiredEntries_KeepsExpired(m, t) == {e \in m : Later(t, e.expiryTime)}

\* cleanup that keeps the entries still to expire, and no other (the test
\* written as !(now <= expiryTime))
cleanupExpiredEntries_KeepsUnexpired(m, t) ==
    {e \in m : (~e.expiryTime.nan) /\ t <= e.expiryTime.v}

\* cleanupExpiredEntries() at time t
cleanupExpiredEntries(m, t) == {e \in m : ~Later(t, e.expiryTime)}

\* clear()
clear(m) == {}

-----------------------------------------------------------------------------
(* The clock.                                                              *)

HalfDay == 12 * 60 * 60 * 1000

TickSteps == {1, HalfDay}

CanTick(d) ==
    IF d = 1 THEN now % HalfDay < MaxMs
    ELSE now \div HalfDay < MaxHalfDays

-----------------------------------------------------------------------------
(* Strings: helpers of String.prototype.                                   *)

\* s.toLowerCase(), on the ASCII letters
toLowerCase(s) == [i \in 1..Len(s) |-> IF s[i] >= 65 /\ s[i] <= 90 THEN s[i] + 32 ELSE s[i]]

\* s.includes(sub)
includes(s, sub) ==
    \E i \in 0..(Len(s) - Len(sub)) : SubSeq(s, i + 1, i + Len(sub)) = sub

\* s.split('/').pop(): what follows the last '/' (all of s when it has none)
LastSegment(s) ==
    LET slashes == {i \in 1..Len(s) : s[i] = 47}
    IN  IF slashes = {} THEN s
        ELSE SubSeq(s, (CHOOSE i \in slashes : \A j \in slashes : j <= i) + 1, Len(s))

RECURSIVE NatDigits(_)
NatDigits(n) == IF n < 10 THEN <<48 + n>> ELSE NatDigits(n \div 10) \o <<48 + (n % 10)>>

\* Number.prototype.toString() of an integer
toString(n) ==
    IF n >= 0 THEN NatDigits(n)
    ELSE LET d == (10 - (n % 10)) % 10
         IN  <<45>> \o (IF n + d = 0 THEN <<>> ELSE NatDigits(0 - ((n + d) \div 10))) \o <<48 + d>>

-----------------------------------------------------------------------------
(* SparqlClient: constants.                                                *)

LAKE      == <<76, 65, 75, 69>>
DAM       == <<68, 65, 77>>
RESERVOIR == <<82, 69, 83, 69, 82, 86, 79, 73, 82>>
RIVER     == <<82, 73, 86, 69, 82>>

waterFeatureTypes == <<LAKE, DAM, RESERVOIR, RIVER>>
AllTypes == {waterFeatureTypes[i] : i \in 1..Len(waterFeatureTypes)}
queryLimit == 500

\* the list of known types read as holding LAKE only
IsWaterFeatureType_LakeOnly(type) == type = LAKE

IsWaterFeatureType(type) == \E i \in 1..Len(waterFeatureTypes) : waterFeatureTypes[i] = type

\* typeMapping[type]
typeMapping(type) ==
    CASE type = LAKE      -> <<81, 50, 51, 51, 57, 55>>
      [] type = DAM       -> <<81, 49, 50, 51, 50, 51>>
      [] type = RESERVOIR -> <<81, 49, 51, 49, 54, 56, 49>>
      [] type = RIVER     -> <<81, 52, 48, 50, 50>>

\* `ALL_${type}` and `FEATURE_${id}`
AllKey(type)   == <<65, 76, 76, 95>> \o type
FeatureKey(id) == <<70, 69, 65, 84, 85, 82, 69, 95>> \o id

-----------------------------------------------------------------------------
(* SparqlClient.buildWaterFeaturesQuery.  An argument is {} when it is not *)
(* given and {v} when it is.  The fixed stretches of the template are cut  *)
(* down to their first words; what is interpolated is rendered in full.    *)

Given(arg)        == arg # {}
ValueOf(arg)      == CHOOSE x \in arg : TRUE
OrDefault(arg, d) == IF Given(arg) THEN ValueOf(arg) ELSE d

NAME == <<110, 97, 109, 101>>
ASC  == <<65, 83, 67>>
DESC == <<68, 69, 83, 67>>

\* sortMapping[sortBy] || sortMapping.name
sortMapping(sortBy) ==
    CASE sortBy = <<110, 97, 109, 101>>        -> <<63, 110, 97, 109, 101>>
      [] sortBy = <<115, 117, 114, 102, 97, 99, 101, 65, 114, 101, 97>> -> <<63, 115, 117, 114, 102, 97, 99, 101, 65, 114, 101, 97>>
      [] sortBy = <<99, 97, 112, 97, 99, 105, 116, 121>>    -> <<63, 99, 97, 112, 97, 99, 105, 116, 121>>
      [] sortBy = <<119, 105, 100, 116, 104>>       -> <<63, 119, 105, 100, 116, 104>>
      [] sortBy = <<108, 101, 110, 103, 116, 104>>      -> <<63, 108, 101, 110, 103, 116, 104>>
      [] OTHER                  -> <<63, 110, 97, 109, 101>>

RECURSIVE JoinTypes(_)
\* this.waterFeatureTypes.map(key => `wd:${typeMapping[key]}`).join(' ') from index i
JoinTypes(i) ==
    <<119, 100, 58>> \o typeMapping(waterFeatureTypes[i]) \o
    (IF i = Len(waterFeatureTypes) THEN <<>> ELSE <<32>> \o JoinTypes(i + 1))

NoArgs == [type |-> {}, region |-> {}, minCapacity |-> {}, minSurfaceArea |-> {},
           sortBy |-> {}, sortOrder |-> {}, limit |-> {}, offset |-> {}]

buildWaterFeaturesQuery(args) ==
    LET type      == args.type
        sortBy    == OrDefault(args.sortBy, NAME)
        sortOrder == OrDefault(args.sortOrder, ASC)
        limit     == OrDefault(args.limit, queryLimit)
        offset    == OrDefault(args.offset, 0)
        typeFilter ==
            IF Given(type) /\ ValueOf(type) # <<>> /\ IsWaterFeatureType(ValueOf(type))
            THEN <<63, 105, 116, 101, 109, 32, 119, 100, 116, 58, 80, 51, 49, 47, 119, 100, 116, 58, 80, 50, 55, 57, 42, 32, 119, 100, 58>> \o typeMapping(ValueOf(type)) \o <<46>>
            ELSE <<86, 65, 76, 85, 69, 83, 32, 63, 116, 121, 112, 101, 73, 100, 32, 123>> \o JoinTypes(1) \o <<125, 32, 63, 105, 116, 101, 109, 32, 119, 100, 116, 58, 80, 51, 49, 47, 119, 100, 116, 58, 80, 50, 55, 57, 42, 32, 63, 116, 121, 112, 101, 73, 100, 46>>
        regionFilter ==
            IF Given(args.region) /\ ValueOf(args.region) # <<>>
            THEN <<70, 73, 76, 84, 69, 82, 40, 67, 79, 78, 84, 65, 73, 78, 83, 40, 76, 67, 65, 83, 69, 40, 63, 114, 101, 103, 105, 111, 110, 76, 97, 98, 101, 108, 41, 44, 32, 76, 67, 65, 83, 69, 40, 34>> \o ValueOf(args.region) \o <<34, 41, 41, 41, 46>>
            ELSE <<>>
        capacityFilter ==
            IF Given(args.minCapacity) /\ ValueOf(args.minCapacity) # 0
            THEN <<70, 73, 76, 84, 69, 82, 40, 63, 99, 97, 112, 97, 99, 105, 116, 121, 32, 62, 61, 32>> \o toString(ValueOf(args.minCapacity)) \o <<41, 46>>
            ELSE <<>>
        surfaceAreaFilter ==
            IF Given(args.minSurfaceArea) /\ ValueOf(args.minSurfaceArea) # 0
            THEN <<70, 73, 76, 84, 69, 82, 40, 63, 115, 117, 114, 102, 97, 99, 101, 65, 114, 101, 97, 32, 62, 61, 32>> \o toString(ValueOf(args.minSurfaceArea)) \o <<41, 46>>
            ELSE <<>>
        sortField == sortMapping(sortBy)
    IN  <<83, 69, 76, 69, 67, 84, 32, 68, 73, 83, 84, 73, 78, 67, 84, 32, 63, 105, 116, 101, 109, 76, 97, 98, 101, 108, 32, 87, 72, 69, 82, 69, 32, 123, 32>> \o typeFilter \o <<32>>
        \o regionFilter \o capacityFilter \o surfaceAreaFilter
        \o <<125, 32, 71, 82, 79, 85, 80, 32, 66, 89, 32, 63, 105, 116, 101, 109, 76, 97, 98, 101, 108, 32, 79, 82, 68, 69, 82, 32, 66, 89, 32>>
        \o (IF sortOrder = DESC THEN DESC ELSE ASC) \o <<40>> \o sortField \o <<41>>
        \o <<32, 76, 73, 77, 73, 84, 32>> \o toString(limit) \o <<32, 79, 70, 70, 83, 69, 84, 32>> \o toString(offset)

\* the variables the query projects (the SELECT list, lines 230-235)
selectVariables ==
    {<<63, 105, 116, 101, 109, 76, 97, 98, 101, 108>>, <<63, 105, 116, 101, 109>>, <<63, 116, 121, 112, 101, 73, 100>>, <<63, 116, 121, 112, 101, 76, 97, 98, 101, 108>>, <<63, 99, 111, 111, 114, 100>>, <<63, 108, 111, 99, 97, 116, 101, 100, 73, 110, 76, 97, 98, 101, 108>>,
     <<63, 119, 105, 100, 116, 104>>, <<63, 108, 101, 110, 103, 116, 104>>, <<63, 115, 117, 114, 102, 97, 99, 101, 65, 114, 101, 97>>, <<63, 99, 97, 112, 97, 99, 105, 116, 121>>, <<63, 105, 110, 99, 101, 112, 116, 105, 111, 110>>, <<63, 100, 101, 115, 99, 114, 105, 112, 116, 105, 111, 110>>}

\* the variables the patterns of the WHERE block bind (lines 236-289, with
\* the region filter of lines 201-205 when there is one)
whereVariables(args) ==
    {<<63, 105, 116, 101, 109>>, <<63, 116, 121, 112, 101, 73, 100>>, <<63, 116, 121, 112, 101, 76, 97, 98, 101, 108>>, <<63, 105, 116, 101, 109, 76, 97, 98, 101, 108>>, <<63, 99, 111, 111, 114, 100>>, <<63, 108, 111, 99, 97, 116, 101, 100, 73, 110>>,
     <<63, 108, 111, 99, 97, 116, 101, 100, 73, 110, 76, 97, 98, 101, 108>>, <<63, 100, 101, 112, 116, 104>>, <<63, 108, 101, 110, 103, 116, 104>>, <<63, 119, 105, 100, 116, 104>>, <<63, 115, 117, 114, 102, 97, 99, 101, 65, 114, 101, 97>>, <<63, 99, 97, 112, 97, 99, 105, 116, 121>>,
     <<63, 105, 110, 99, 101, 112, 116, 105, 111, 110>>, <<63, 100, 101, 115, 99, 114, 105, 112, 116, 105, 111, 110>>}
    \cup (IF Given(args.region) /\ ValueOf(args.region) # <<>>
          THEN {<<63, 114, 101, 103, 105, 111, 110>>, <<63, 114, 101, 103, 105, 111, 110, 76, 97, 98, 101, 108>>} ELSE {})

\* SparqlClient.buildWaterFeatureByIdQuery(id)
buildWaterFeatureByIdQuery(id) ==
    <<83, 69, 76, 69, 67, 84, 32, 63, 105, 116, 101, 109, 32, 87, 72, 69, 82, 69, 32, 123, 32, 66, 73, 78, 68, 40, 119, 100, 58>> \o id \o <<32, 65, 83, 32, 63, 105, 116, 101, 109, 41, 32, 125, 32, 76, 73, 77, 73, 84, 32, 49>>

\* the query preloadCache and getAllFeaturesOfType build (lines 112 and 143)
TypeQuery(type) ==
    buildWaterFeaturesQuery([NoArgs EXCEPT !.type = {type}, !.limit = {queryLimit}])

-----------------------------------------------------------------------------
(* The arguments requests come with, and the query texts they lead to.     *)

Q1   == <<81, 49>>
Q2   == <<81, 50>>
POND == <<80, 79, 78, 68>>
TypeArgs == {waterFeatureTypes[i] : i \in 1..Len(waterFeatureTypes)} \cup {POND}
IdArgs   == {Q1, Q2}

\* filter specifications callers send: every combination of type, region and
\* the two bounds with the default order and page, and a few of them with
\* every order and page
SOFIA    == <<83, 111, 102, 105, 97>>
CAPACITY == <<99, 97, 112, 97, 99, 105, 116, 121>>
HEIGHT   == <<104, 101, 105, 103, 104, 116>>
ArgTypes   == { {} } \cup {{type} : type \in TypeArgs}
ArgRegions == { {}, {<<>>}, {SOFIA} }
ArgBounds  == { {}, {0}, {5} }
ArgSortBys == { {}, {NAME}, {CAPACITY}, {HEIGHT} }
ArgSortOrders == { {}, {DESC}, {<<100, 101, 115, 99>>} }
ArgLimits  == { {}, {5} }
ArgOffsets == { {}, {10} }

Filters ==
    {[NoArgs EXCEPT !.type = type, !.region = region, !.minCapacity = minCapacity,
                    !.minSurfaceArea = minSurfaceArea] :
        type \in ArgTypes, region \in ArgRegions,
        minCapacity \in ArgBounds, minSurfaceArea \in ArgBounds}

BaseFilters ==
    {NoArgs, [NoArgs EXCEPT !.type = {DAM}, !.minCapacity = {5}]}

BuildArgs ==
    Filters \cup
    {[f EXCEPT !.sortBy = sortBy, !.sortOrder = sortOrder, !.limit = limit,
               !.offset = offset] :
        f \in BaseFilters, sortBy \in ArgSortBys, sortOrder \in ArgSortOrders,
        limit \in ArgLimits, offset \in ArgOffsets}

\* the arguments the resolver waterFeatures is called with: a type alone,
\* with every order and two pages, a type that is none of the four, and
\* filters that make it build a query (two regions among them whose queries
\* differ in two characters only)
AA == <<65, 97>>
BB == <<66, 66>>
ListArgs ==
    {[NoArgs EXCEPT !.type = {DAM}, !.sortBy = sortBy, !.sortOrder = sortOrder,
                    !.limit = page, !.offset = page] :
        sortBy \in { {}, {CAPACITY}, {NAME} }, sortOrder \in { {}, {DESC} },
        page \in { {}, {1} }}
    \cup {[NoArgs EXCEPT !.type = {POND}]}
FilterArgs ==
    {[NoArgs EXCEPT !.region = {AA}], [NoArgs EXCEPT !.region = {BB}],
     [NoArgs EXCEPT !.minCapacity = {5}]}
ResolveArgs == ListArgs \cup FilterArgs

QueryTexts ==
    {TypeQuery(waterFeatureTypes[i]) : i \in 1..Len(waterFeatureTypes)}
    \cup {buildWaterFeatureByIdQuery(id) : id \in IdArgs}
    \cup {buildWaterFeaturesQuery(args) : args \in BuildArgs}
    \cup {buildWaterFeaturesQuery(args) : args \in FilterArgs}

-----------------------------------------------------------------------------
(* 32-bit integers, in 16-bit halves (hi signed, lo in 0..65535).          *)

Lo16(x) == x % 65536
Hi16(x) == x \div 65536
Signed16(h) == LET m == h % 65536 IN IF m >= 32768 THEN m - 65536 ELSE m
\* ToInt32 of hi * 2^16 + lo, for halves that may have run over
Int32(hi, lo) == Signed16(hi + (lo \div 65536)) * 65536 + (lo % 65536)

\* ToInt32(x << 5)
Shl5(x) == Int32(Hi16(x) * 32, Lo16(x) * 32)
\* ToInt32(a - b), ToInt32(a + b)
Sub32(a, b) == Int32(Hi16(a) - Hi16(b), Lo16(a) - Lo16(b))
Add32(a, b) == Int32(Hi16(a) + Hi16(b), Lo16(a) + Lo16(b))

\* one round of the loop: hash = ((hash << 5) - hash) + char; hash = hash & hash.
\* The sum is exact in JavaScript and wrapped by the &; wrapping each partial
\* sum gives the same 32-bit value.
hashRound(hash, char) ==
    Let(Shl5(hash), LAMBDA shifted :
    Let(Sub32(shifted, hash), LAMBDA difference : Add32(difference, char)))

RECURSIVE hashLoop(_, _, _, _)
\* the rounds of the loop for i = from .. to, in this order, starting from hash
\* (the range is halved only to keep the evaluation shallow)
hashLoop(str, from, to, hash) ==
    IF from > to THEN hash
    ELSE IF from = to THEN hashRound(hash, str[from])
    ELSE Let(hashLoop(str, from, (from + to) \div 2, hash), LAMBDA half :
             hashLoop(str, ((from + to) \div 2) + 1, to, half))

\* hashString that renders the hash of the text's first character only
hashString_FirstChar(str) ==
    Let(hashLoop(str, 1, IF Len(str) > 0 THEN 1 ELSE 0, 0), LAMBDA hash : toString(hash))

\* lines 73-79: the loop and hash.toString()
hashOf(str) == Let(hashLoop(str, 1, Len(str), 0), LAMBDA hash : toString(hash))

\* hashString that mixes the time of the call into the hash
hashString_Salted(str) == hashOf(str \o toString(now))

\* hashOf on the query texts, worked out once
hashTable == [str \in QueryTexts |-> hashOf(str)]

\* CacheManager.hashString(str)
hashString(str) == IF str \in QueryTexts THEN hashTable[str] ELSE hashOf(str)

\* cacheQuery that keeps a query result for 12 hours instead of the ttl given
cacheQuery_HalfDay(m, queryString, data, ttl, t) ==
    set(m, hashString(queryString), data, Num(HalfDay), t)

\* CacheManager.cacheQuery(queryString, data, ttl) at time t
cacheQuery(m, queryString, data, ttl, t) ==
    set(m, hashString(queryString), data, ttl, t)

\* CacheManager.getCachedQuery(queryString) at time t
getCachedQuery(m, queryString, t) == get(m, hashString(queryString), t)

-----------------------------------------------------------------------------
(* SparqlClient.transformResults.  What response.json() gives is null or   *)
(* a raw result [kind |-> "raw", results |-> {} or {[bindings |-> {} or    *)
(* {<<binding, ...>>}, isArray |-> whether bindings is an array]}], where  *)
(* {} stands for a member that is missing or falsy; a binding is           *)
(* [item |-> the entity's URI, typeLabel |-> {} or {label},                *)
(* coord |-> {} or {the coordinates' text}, capacity |-> {} or {the        *)
(* number's text}].  A feature's capacity is {} for null.                  *)

Error(message) == [kind |-> "error", message |-> message]

\* the TypeErrors of lines 305 and 309
NOPROPERTIES  == <<67, 97, 110, 110, 111, 116, 32, 114, 101, 97, 100, 32, 112, 114, 111, 112, 101, 114, 116, 105, 101, 115, 32, 111, 102, 32, 110, 117, 108, 108, 32, 40, 114, 101, 97, 100, 105, 110, 103, 32, 39, 114, 101, 115, 117, 108, 116, 115, 39, 41>>
NOTAFUNCTION  == <<114, 101, 115, 117, 108, 116, 115, 46, 114, 101, 115, 117, 108, 116, 115, 46, 98, 105, 110, 100, 105, 110, 103, 115, 46, 109, 97, 112, 32, 105, 115, 32, 110, 111, 116, 32, 97, 32, 102, 117, 110, 99, 116, 105, 111, 110>>

\* the first index from `from` on at which s has the character c, 0 if none
IndexFrom(s, from, c) ==
    LET at == {i \in from..Len(s) : s[i] = c}
    IN  IF at = {} THEN 0 ELSE CHOOSE i \in at : \A j \in at : i <= j

\* /Point\(([^ ]+) ([^)]+)\)/ tried at index i: the first group runs up to
\* the first space, the second from there up to the first ')'; neither may
\* be empty.  {} when the pattern does not match there.
matchAt(s, i) ==
    IF i + 5 <= Len(s) /\ SubSeq(s, i, i + 5) = <<80, 111, 105, 110, 116, 40>>
    THEN Let(IndexFrom(s, i + 6, 32), LAMBDA space :
             IF space > i + 6
             THEN Let(IndexFrom(s, space + 1, 41), LAMBDA close :
                      IF close > space + 1
                      THEN {[g1 |-> SubSeq(s, i + 6, space - 1),
                             g2 |-> SubSeq(s, space + 1, close - 1)]}
                      ELSE {})
             ELSE {})
    ELSE {}

\* coordValue.match(/Point\(([^ ]+) ([^)]+)\)/), line 317: the groups of the
\* leftmost match, {} when there is none
match(coordValue) ==
    Let({i \in 1..Len(coordValue) : matchAt(coordValue, i) # {}}, LAMBDA at :
        IF at = {} THEN {}
        ELSE matchAt(coordValue, CHOOSE i \in at : \A j \in at : i <= j))

\* lines 311-322 and 341: the location given to a binding
locationOf(binding) ==
    IF binding.coord = {} THEN Null
    ELSE Let(match(ValueOf(binding.coord)), LAMBDA found :
             IF found = {} THEN Null
             ELSE Let(parseFloat(ValueOf(found).g1), LAMBDA longitude :
                  Let(parseFloat(ValueOf(found).g2), LAMBDA latitude :
                      IF TruthyNumber(latitude) /\ TruthyNumber(longitude)
                      THEN [kind |-> "coordinates", latitude |-> latitude,
                            longitude |-> longitude]
                      ELSE Null)))

\* typeOf with the tests in the order lake, river, reservoir, dam
typeOf_LakeFirst(binding) ==
    IF binding.typeLabel = {} THEN LAKE
    ELSE LET typeLabel == toLowerCase(ValueOf(binding.typeLabel))
         IN  CASE includes(typeLabel, <<108, 97, 107, 101>>)      -> LAKE
               [] includes(typeLabel, <<114, 105, 118, 101, 114>>)     -> RIVER
               [] includes(typeLabel, <<114, 101, 115, 101, 114, 118, 111, 105, 114>>) -> RESERVOIR
               [] includes(typeLabel, <<100, 97, 109>>)       -> DAM
               [] OTHER                            -> LAKE

\* the type given to a binding (lines 328-335)
typeOf(binding) ==
    IF binding.typeLabel = {} THEN LAKE
    ELSE LET typeLabel == toLowerCase(ValueOf(binding.typeLabel))
         IN  CASE includes(typeLabel, <<100, 97, 109>>)       -> DAM
               [] includes(typeLabel, <<114, 101, 115, 101, 114, 118, 111, 105, 114>>) -> RESERVOIR
               [] includes(typeLabel, <<114, 105, 118, 101, 114>>)     -> RIVER
               [] includes(typeLabel, <<108, 97, 107, 101>>)      -> LAKE
               [] OTHER                            -> LAKE

\* the feature made from one binding
transformBinding(binding) ==
    [kind |-> "feature",
     id   |-> LastSegment(binding.item),
     type |-> typeOf(binding),
     location |-> locationOf(binding),
     capacity |-> IF binding.capacity = {} THEN {}
                  ELSE {parseFloat(ValueOf(binding.capacity))}]

Features(items) == [kind |-> "list", items |-> items]

\* lines 304-352: the list of features, or the TypeError thrown
transformResults(results) ==
    IF results.kind = "null" THEN Error(NOPROPERTIES)
    ELSE IF results.results = {} \/ ValueOf(results.results).bindings = {}
    THEN Features(<<>>)
    ELSE IF ~ValueOf(results.results).isArray THEN Error(NOTAFUNCTION)
    ELSE LET bindings == ValueOf(ValueOf(results.results).bindings)
         IN  Features([i \in 1..Len(bindings) |-> transformBinding(bindings[i])])

-----------------------------------------------------------------------------
(* What the transport (fetch) answers.                                     *)

Binding(id, label) == [item |-> <<104, 116, 116, 112, 58, 47, 47, 119, 119, 119, 46, 119, 105, 107, 105, 100, 97, 116, 97, 46, 111, 114, 103, 47, 101, 110, 116, 105, 116, 121, 47>> \o id, typeLabel |-> {label}, coord |-> {}, capacity |-> {}]

Raw(bindings) == [kind |-> "raw", results |-> {[bindings |-> {bindings}, isArray |-> TRUE]}]
\* a result without the member bindings, and one whose bindings is an object
\* or a string, say, instead of an array
RawNoBindings == [kind |-> "raw", results |-> {[bindings |-> {}, isArray |-> FALSE]}]
RawNotAList   == [kind |-> "raw", results |-> {[bindings |-> {<<>>}, isArray |-> FALSE]}]
RawNoResults  == [kind |-> "raw", results |-> {}]
RawOne        == Raw(<<Binding(Q1, <<76, 97, 107, 101>>)>>)
RawTwo        == Raw(<<[Binding(Q2, <<65, 114, 116, 105, 102, 105, 99, 105, 97, 108, 32, 68, 97, 109>>) EXCEPT !.capacity = {<<50, 53>>}],
                       [Binding(Q1, <<65, 114, 116, 105, 102, 105, 99, 105, 97, 108, 32, 68, 97, 109>>) EXCEPT !.capacity = {<<55, 46, 53>>}]>>)
RawEntity(id) == Raw(<<Binding(id, <<82, 101, 115, 101, 114, 118, 111, 105, 114, 32, 76, 97, 107, 101>>)>>)

Answers(sparqlQuery) ==
    CASE sparqlQuery = TypeQuery(LAKE)      -> {RawOne, RawNoResults}
      [] sparqlQuery = TypeQuery(DAM)       -> {RawTwo}
      [] sparqlQuery = TypeQuery(RESERVOIR) -> {Raw(<<>>)}
      [] sparqlQuery = TypeQuery(RIVER)     -> {RawTwo}
      [] sparqlQuery = buildWaterFeatureByIdQuery(Q1) -> {RawEntity(Q1), Raw(<<>>)}
      [] sparqlQuery = buildWaterFeatureByIdQuery(Q2) -> {RawEntity(Q2), Raw(<<>>)}
      [] sparqlQuery = buildWaterFeaturesQuery([NoArgs EXCEPT !.region = {AA}]) -> {RawOne}
      [] sparqlQuery = buildWaterFeaturesQuery([NoArgs EXCEPT !.minCapacity = {5}]) ->
            {RawTwo, RawNotAList}
      [] OTHER -> {Raw(<<>>)}

SERVICE_UNAVAILABLE == <<83, 101, 114, 118, 105, 99, 101, 32, 85, 110, 97, 118, 97, 105, 108, 97, 98, 108, 101>>

\* the text of a response that is not ok (response.text())
Text(text) == [kind |-> "text", text |-> text]

\* the responses the remote endpoint may give to a query: a failure, or the
\* result set it holds for that query (for one entity: a row, or none)
Responses(sparqlQuery) ==
    {[ok |-> FALSE, body |-> Text(SERVICE_UNAVAILABLE)]}
    \cup {[ok |-> TRUE, body |-> r] : r \in Answers(sparqlQuery)}

AllResponses == UNION {Responses(q) : q \in QueryTexts}

INVALIDMSG == <<73, 110, 118, 97, 108, 105, 100, 32, 119, 97, 116, 101, 114, 32, 102, 101, 97, 116, 117, 114, 101, 32, 116, 121, 112, 101, 58, 32>>
FAILEDMSG  == <<83, 80, 65, 82, 81, 76, 32, 113, 117, 101, 114, 121, 32, 102, 97, 105, 108, 101, 100, 58, 32>>
\* resolvers/index.js line 46
FETCHFAILEDMSG == <<70, 97, 105, 108, 101, 100, 32, 116, 111, 32, 102, 101, 116, 99, 104, 32, 119, 97, 116, 101, 114, 32, 102, 101, 97, 116, 117, 114, 101, 115, 32, 102, 114, 111, 109, 32, 87, 105, 107, 105, 100, 97, 116, 97>>

-----------------------------------------------------------------------------
(* SparqlClient.query, in its two halves: up to the fetch, and from the    *)
(* response on.                                                            *)

\* the first half finding nothing in the cache, whatever it holds
queryBegin_NeverHits(m, sparqlQuery, t) ==
    [hit |-> FALSE, result |-> Null, cache |-> getCachedQuery(m, sparqlQuery, t).cache]

\* lines 70-75: the cached result, if there is one
queryBegin(m, sparqlQuery, t) ==
    Let(getCachedQuery(m, sparqlQuery, t), LAMBDA cachedResult :
        [hit |-> Truthy(cachedResult.data), result |-> cachedResult.data,
         cache |-> cachedResult.cache])

\* the second half caching an empty result for a query that has failed
queryEnd_CachesFailure(m, sparqlQuery, response, ttl, t) ==
    IF ~response.ok
    THEN [threw |-> TRUE, result |-> Error(FAILEDMSG \o response.body.text),
          cache |-> cacheQuery(m, sparqlQuery, RawNoResults, ttl, t)]
    ELSE [threw |-> FALSE, result |-> response.body,
          cache |-> cacheQuery(m, sparqlQuery, response.body, ttl, t)]

\* the second half leaving alone a result another call has cached meanwhile
queryEnd_KeepsFirst(m, sparqlQuery, response, ttl, t) ==
    IF ~response.ok
    THEN [threw |-> TRUE, result |-> Error(FAILEDMSG \o response.body.text),
          cache |-> m]
    ELSE [threw |-> FALSE, result |-> response.body,
          cache |-> IF MapHas(m, hashString(sparqlQuery)) THEN m
                    ELSE cacheQuery(m, sparqlQuery, response.body, ttl, t)]

\* lines 90-100; ttl is this.defaultTTL, the default of cacheQuery's parameter
queryEnd(m, sparqlQuery, response, ttl, t) ==
    IF ~response.ok
    THEN [threw |-> TRUE, result |-> Error(FAILEDMSG \o response.body.text),
          cache |-> m]
    ELSE [threw |-> FALSE, result |-> response.body,
          cache |-> cacheQuery(m, sparqlQuery, response.body, ttl, t)]

-----------------------------------------------------------------------------
(* SparqlClient.getAllFeaturesOfType and preloadCache.                     *)

\* the type's list kept for an hour instead of 12 hours
storeByType_OneHour(m, type, results, t) ==
    Let(transformResults(results), LAMBDA features :
        IF features.kind = "error" THEN [result |-> features, cache |-> m]
        ELSE [result |-> features,
              cache |-> set(m, AllKey(type), features, Num(60 * 60 * 1000), t)])

\* the state a call ends in with this result: an error is thrown
Outcome(result) == IF result.kind = "error" THEN "threw" ELSE "returned"

\* lines 145-148 (and 116-117): transform the results and cache them by type;
\* an error thrown by transformResults is the result, and nothing is cached
storeByType(m, type, results, t) ==
    Let(transformResults(results), LAMBDA features :
        IF features.kind = "error" THEN [result |-> features, cache |-> m]
        ELSE [result |-> features,
              cache |-> set(m, AllKey(type), features, Num(12 * 60 * 60 * 1000), t)])

\* the keys getAllFeaturesOfType(type) looks up when it gets as far as query()
typeReads(type) == {AllKey(type), hashString(TypeQuery(type))}

\* getAllFeaturesOfType that looks the type's list up before validating it
getAllFeaturesOfTypeBegin_LateCheck(m, type, t) ==
    Let(get(m, AllKey(type), t), LAMBDA features :
        IF ~IsWaterFeatureType(type)
        THEN [state |-> "threw", result |-> Error(INVALIDMSG \o type),
              cache |-> features.cache, text |-> {}, raw |-> {}, read |-> {AllKey(type)}]
        ELSE [state |-> "returned", result |-> features.data, cache |-> features.cache,
              text |-> {}, raw |-> {}, read |-> {AllKey(type)}])

\* lines 134-144: up to the fetch
getAllFeaturesOfTypeBegin(m, type, t) ==
    IF ~IsWaterFeatureType(type)
    THEN [state |-> "threw", result |-> Error(INVALIDMSG \o type),
          cache |-> m, text |-> {}, raw |-> {}, read |-> {}]
    ELSE Let(get(m, AllKey(type), t), LAMBDA features :
             IF Truthy(features.data)
             THEN [state |-> "returned", result |-> features.data,
                   cache |-> features.cache, text |-> {}, raw |-> {},
                   read |-> {AllKey(type)}]
             ELSE Let(queryBegin(features.cache, TypeQuery(type), t), LAMBDA q :
                      IF q.hit
                      THEN Let(storeByType(q.cache, type, q.result, t), LAMBDA stored :
                               [state |-> Outcome(stored.result), result |-> stored.result,
                                cache |-> stored.cache, text |-> {TypeQuery(type)},
                                raw |-> {q.result}, read |-> typeReads(type)])
                      ELSE [state |-> "await", result |-> Null, cache |-> q.cache,
                            text |-> {TypeQuery(type)}, raw |-> {},
                            read |-> typeReads(type)]))

\* lines 144-151: from the response on
getAllFeaturesOfTypeEnd(m, type, response, ttl, t) ==
    Let(queryEnd(m, TypeQuery(type), response, ttl, t), LAMBDA q :
        IF q.threw
        THEN [state |-> "threw", result |-> q.result, cache |-> q.cache, raw |-> {}]
        ELSE Let(storeByType(q.cache, type, q.result, t), LAMBDA stored :
                 [state |-> Outcome(stored.result), result |-> stored.result,
                  cache |-> stored.cache, raw |-> {q.result}]))

-----------------------------------------------------------------------------
(* SparqlClient.getWaterFeatureById.                                       *)

\* features.find(f => f.id === id): {} when there is none
find(features, id) ==
    IF \E j \in 1..Len(features.items) : features.items[j].id = id
    THEN {features.items[CHOOSE j \in 1..Len(features.items) :
                            /\ features.items[j].id = id
                            /\ \A l \in 1..(j - 1) : features.items[l].id # id]}
    ELSE {}

RECURSIVE scanTypesBackwards(_, _, _, _)
\* the scan of the type caches made from the last type to the first
scanTypesBackwards(m, id, i, t) ==
    IF i > Len(waterFeatureTypes) THEN [found |-> {}, cache |-> m, read |-> {}]
    ELSE Let(get(m, AllKey(waterFeatureTypes[Len(waterFeatureTypes) + 1 - i]), t), LAMBDA features :
             IF Truthy(features.data) /\ find(features.data, id) # {}
             THEN [found |-> find(features.data, id), cache |-> features.cache,
                   read |-> {AllKey(waterFeatureTypes[Len(waterFeatureTypes) + 1 - i])}]
             ELSE Let(scanTypesBackwards(features.cache, id, i + 1, t), LAMBDA rest :
                      [rest EXCEPT !.read = @ \cup {AllKey(waterFeatureTypes[Len(waterFeatureTypes) + 1 - i])}]))

RECURSIVE scanTypes(_, _, _, _)
\* lines 417-426, from the i-th type on: the feature found, if any
scanTypes(m, id, i, t) ==
    IF i > Len(waterFeatureTypes) THEN [found |-> {}, cache |-> m, read |-> {}]
    ELSE Let(get(m, AllKey(waterFeatureTypes[i]), t), LAMBDA features :
             IF Truthy(features.data) /\ find(features.data, id) # {}
             THEN [found |-> find(features.data, id), cache |-> features.cache,
                   read |-> {AllKey(waterFeatureTypes[i])}]
             ELSE Let(scanTypes(features.cache, id, i + 1, t), LAMBDA rest :
                      [rest EXCEPT !.read = @ \cup {AllKey(waterFeatureTypes[i])}]))

\* the second half of getWaterFeatureById caching null when nothing was found
storeById_CachesNull(m, id, results, ttl, t) ==
    Let(transformResults(results), LAMBDA transformedResults :
        IF transformedResults.kind = "error"
        THEN [result |-> transformedResults, cache |-> m]
        ELSE IF Len(transformedResults.items) > 0
        THEN [result |-> transformedResults.items[1],
              cache |-> set(m, FeatureKey(id), transformedResults.items[1], ttl, t)]
        ELSE [result |-> Null, cache |-> set(m, FeatureKey(id), Null, ttl, t)])

\* the second half of getWaterFeatureById caching the feature under the
\* fingerprint of its query
storeById_UnderFingerprint(m, id, results, ttl, t) ==
    Let(transformResults(results), LAMBDA transformedResults :
        IF transformedResults.kind = "error"
        THEN [result |-> transformedResults, cache |-> m]
        ELSE IF Len(transformedResults.items) > 0
        THEN [result |-> transformedResults.items[1],
              cache |-> set(m, hashString(buildWaterFeatureByIdQuery(id)),
                            transformedResults.items[1], ttl, t)]
        ELSE [result |-> Null, cache |-> m])

\* lines 432-442: transform the results and cache the feature found; an
\* error thrown by transformResults is the result, and nothing is cached
storeById(m, id, results, ttl, t) ==
    Let(transformResults(results), LAMBDA transformedResults :
        IF transformedResults.kind = "error"
        THEN [result |-> transformedResults, cache |-> m]
        ELSE IF Len(transformedResults.items) > 0
        THEN [result |-> transformedResults.items[1],
              cache |-> set(m, FeatureKey(id), transformedResults.items[1], ttl, t)]
        ELSE [result |-> Null, cache |-> m])

\* lines 416-431: up to the fetch
getWaterFeatureByIdBegin(m, id, ttl, t) ==
    Let(scanTypes(m, id, 1, t), LAMBDA scan :
        IF scan.found # {}
        THEN [state |-> "returned", result |-> ValueOf(scan.found), cache |-> scan.cache,
              text |-> {}, raw |-> {}, read |-> scan.read]
        ELSE Let(queryBegin(scan.cache, buildWaterFeatureByIdQuery(id), t), LAMBDA q :
                 IF q.hit
                 THEN Let(storeById(q.cache, id, q.result, ttl, t), LAMBDA stored :
                          [state |-> Outcome(stored.result), result |-> stored.result,
                           cache |-> stored.cache, text |-> {buildWaterFeatureByIdQuery(id)},
                           raw |-> {q.result},
                           read |-> scan.read \cup {hashString(buildWaterFeatureByIdQuery(id))}])
                 ELSE [state |-> "await", result |-> Null, cache |-> q.cache,
                       text |-> {buildWaterFeatureByIdQuery(id)}, raw |-> {},
                       read |-> scan.read \cup {hashString(buildWaterFeatureByIdQuery(id))}]))

\* lines 431-442: from the response on
getWaterFeatureByIdEnd(m, id, response, ttl, t) ==
    Let(queryEnd(m, buildWaterFeatureByIdQuery(id), response, ttl, t), LAMBDA q :
        IF q.threw
        THEN [state |-> "threw", result |-> q.result, cache |-> q.cache, raw |-> {}]
        ELSE Let(storeById(q.cache, id, q.result, ttl, t), LAMBDA stored :
                 [state |-> Outcome(stored.result), result |-> stored.result,
                  cache |-> stored.cache, raw |-> {q.result}]))

-----------------------------------------------------------------------------
(* The cache API on its own: any caller, any keys, any values.             *)

K1 == <<107, 49>>      \* "k1"
K2 == <<107, 50>>      \* "k2"
ApiKeys   == {K1, K2}
ApiValues == {[kind |-> "value", v |-> "a"], [kind |-> "value", v |-> "b"]}
\* the ttl argument: {} when omitted (the default applies)
ApiTTLs   == { {}, {Num(1)}, {Num(HalfDay)} }

NoSet == [kind |-> "none"]
NoCall == [op |-> "none"]

TtlArg(arg) == IF arg = {} THEN defaultTTL ELSE CHOOSE x \in arg : TRUE

Requests == 1..NumReq

IdleRequest ==
    [pc |-> "idle", op |-> "none", arg |-> <<>>, text |-> {}, calls |-> 0, resp |-> {},
     outcome |-> "none", result |-> Null, raw |-> {}, read |-> {}, wrote |-> {},
     evicted |-> {}]

\* preloadCache about to run: its loop at the first type, nothing logged yet
PreloadStart ==
    [pc |-> "loop", i |-> 1, calls |-> 0, ok |-> {}, caught |-> {},
     storedAt |-> [j \in 1..Len(waterFeatureTypes) |-> {}]]

\* the state when the modules have been loaded: the cache constructed
\* (cacheManager.js lines 3-7), nothing preloaded yet, the server not listening
Init ==
    /\ cache = {}
    /\ defaultTTL \in {parseInt(env) : env \in EnvCacheTTL}
    /\ now = 0
    /\ last = NoCall
    /\ hist = [k \in ApiKeys |-> NoSet]
    /\ preload = PreloadStart
    /\ started = FALSE
    /\ req = [r \in Requests |-> IdleRequest]

ApiSet(k, v, arg) ==
    /\ cache' = set(cache, k, v, TtlArg(arg), now)
    /\ last' = [op |-> "set", key |-> k,
                overwrote |-> \E old \in cache :
                                 /\ old.key = k
                                 /\ old.data # v
                                 /\ old.expiryTime # Plus(now, TtlArg(arg))]
    /\ hist' = [hist EXCEPT ![k] = [kind |-> "set", data |-> v, time |-> now, ttl |-> TtlArg(arg)]]
    /\ UNCHANGED <<defaultTTL, now, svars>>

ApiGet(k) ==
    /\ cache' = get(cache, k, now).cache
    /\ last' = [op |-> "get", key |-> k, data |-> get(cache, k, now).data,
                had |-> MapHas(cache, k)]
    /\ UNCHANGED <<defaultTTL, now, hist, svars>>

ApiCleanup ==
    /\ cache' = cleanupExpiredEntries(cache, now)
    /\ last' = [op |-> "cleanup",
                removed |-> {e.key : e \in cache \ cleanupExpiredEntries(cache, now)}]
    /\ UNCHANGED <<defaultTTL, now, hist, svars>>

ApiClear ==
    /\ cache' = clear(cache)
    /\ last' = [op |-> "clear"]
    /\ hist' = [k \in ApiKeys |-> NoSet]
    /\ UNCHANGED <<defaultTTL, now, svars>>

ApiTick(d) ==
    /\ CanTick(d)
    /\ now' = now + d
    /\ last' = [op |-> "tick"]
    /\ UNCHANGED <<cache, defaultTTL, hist, svars>>

NextCache ==
    \/ \E k \in ApiKeys, v \in ApiValues, arg \in ApiTTLs : ApiSet(k, v, arg)
    \/ \E k \in ApiKeys : ApiGet(k)
    \/ ApiCleanup
    \/ ApiClear
    \/ \E d \in TickSteps : ApiTick(d)

SpecCache == Init /\ [][NextCache]_vars

-----------------------------------------------------------------------------
(* The server: serverWillStart's preload, the listening server's requests, *)
(* the cleanup timer and the clock.  A handler runs without interruption   *)
(* up to its fetch and again from the response on; the handlers of other   *)
(* requests and the timer run in between.  Apollo holds requests back      *)
(* until serverWillStart has finished.                                     *)

\* the keys whose entry was stored (with another value or expiry than it
\* had), and the keys whose entry was removed
Written(m1, m2) == {e.key : e \in m2 \ m1}
Removed(m1, m2) == {e.key : e \in {x \in m1 : ~MapHas(m2, x.key)}}

\* preloadCache, lines 109-113: the next type's iteration, up to its fetch
PreloadStep ==
    /\ preload.pc = "loop"
    /\ \E type \in {waterFeatureTypes[preload.i]} :
       \E q \in {queryBegin(cache, TypeQuery(type), now)} :
       LET next == IF preload.i = Len(waterFeatureTypes) THEN "done" ELSE "loop"
       IN  IF q.hit
           THEN \E stored \in {storeByType(q.cache, type, q.result, now)} :
                /\ cache' = stored.cache
                /\ preload' = IF stored.result.kind = "error"
                               THEN [preload EXCEPT !.pc = next,
                                        !.i = IF next = "done" THEN @ ELSE @ + 1,
                                        !.caught = @ \cup {type}]
                               ELSE [preload EXCEPT !.pc = next,
                                        !.i = IF next = "done" THEN @ ELSE @ + 1,
                                        !.storedAt[preload.i] = {now}]
           ELSE /\ cache' = q.cache
                /\ preload' = [preload EXCEPT !.pc = "await", !.calls = @ + 1]
    /\ UNCHANGED <<defaultTTL, now, last, hist, started, req>>

\* preloadCache whose loop ends at the first failed query
PreloadResponse_Aborts(response) ==
    /\ preload.pc = "await"
    /\ response \in Responses(TypeQuery(waterFeatureTypes[preload.i]))
    /\ \E type \in {waterFeatureTypes[preload.i]} :
       \E q \in {queryEnd(cache, TypeQuery(type), response, defaultTTL, now)} :
       LET next == IF preload.i = Len(waterFeatureTypes) THEN "done" ELSE "loop"
       IN  IF q.threw
           THEN /\ cache' = q.cache
                /\ preload' = [preload EXCEPT !.pc = "done", !.caught = @ \cup {type}]
           ELSE \E stored \in {storeByType(q.cache, type, q.result, now)} :
                /\ cache' = stored.cache
                /\ preload' = IF stored.result.kind = "error"
                               THEN [preload EXCEPT !.pc = "done", !.caught = @ \cup {type}]
                               ELSE [preload EXCEPT !.pc = next,
                                        !.i = IF next = "done" THEN @ ELSE @ + 1,
                                        !.ok = @ \cup {type},
                                        !.storedAt[preload.i] = {now}]
    /\ UNCHANGED <<defaultTTL, now, last, hist, started, req>>

\* preloadCache, lines 113-122: the iteration from the response on; an error
\* is caught and logged, and the loop goes on
PreloadResponse(response) ==
    /\ preload.pc = "await"
    /\ response \in Responses(TypeQuery(waterFeatureTypes[preload.i]))
    /\ \E type \in {waterFeatureTypes[preload.i]} :
       \E q \in {queryEnd(cache, TypeQuery(type), response, defaultTTL, now)} :
       LET next == IF preload.i = Len(waterFeatureTypes) THEN "done" ELSE "loop"
       IN  IF q.threw
           THEN /\ cache' = q.cache
                /\ preload' = [preload EXCEPT !.pc = next,
                                  !.i = IF next = "done" THEN @ ELSE @ + 1,
                                  !.caught = @ \cup {type}]
           ELSE \E stored \in {storeByType(q.cache, type, q.result, now)} :
                /\ cache' = stored.cache
                /\ preload' = IF stored.result.kind = "error"
                               THEN [preload EXCEPT !.pc = next,
                                        !.i = IF next = "done" THEN @ ELSE @ + 1,
                                        !.caught = @ \cup {type}]
                               ELSE [preload EXCEPT !.pc = next,
                                        !.i = IF next = "done" THEN @ ELSE @ + 1,
                                        !.ok = @ \cup {type},
                                        !.storedAt[preload.i] = {now}]
    /\ UNCHANGED <<defaultTTL, now, last, hist, started, req>>

\* serverWillStart has returned (lines 25-33) and server.listen goes on.  The
\* preload's log is kept from here on only when every type was loaded.
ServerListen ==
    /\ preload.pc = "done"
    /\ ~started
    /\ started' = TRUE
    /\ preload' = IF preload.ok = AllTypes
                   THEN [preload EXCEPT !.pc = "returned"]
                   ELSE [PreloadStart EXCEPT !.pc = "returned"]
    /\ UNCHANGED <<cache, defaultTTL, now, last, hist, req>>

Begun(r, op, arg, b) ==
    /\ cache' = b.cache
    /\ req' = [req EXCEPT ![r] =
                  [pc |-> IF b.state = "await" THEN "await" ELSE "done",
                   op |-> op, arg |-> arg, text |-> b.text,
                   calls |-> IF b.state = "await" THEN 1 ELSE 0,
                   resp |-> {},
                   outcome |-> IF b.state = "await" THEN "none" ELSE b.state,
                   result |-> b.result, raw |-> b.raw, read |-> b.read,
                   wrote |-> Written(cache, b.cache),
                   evicted |-> Removed(cache, b.cache)]]
    /\ UNCHANGED <<defaultTTL, now, last, hist, preload, started>>

\* a call of getAllFeaturesOfType(type), up to its fetch
StartByType(r, type) ==
    /\ started
    /\ req[r].pc = "idle"
    /\ \E b \in {getAllFeaturesOfTypeBegin(cache, type, now)} :
          Begun(r, "getAllFeaturesOfType", type, b)

\* a call of getWaterFeatureById(id), up to its fetch
StartById(r, id) ==
    /\ started
    /\ req[r].pc = "idle"
    /\ \E b \in {getWaterFeatureByIdBegin(cache, id, defaultTTL, now)} :
          Begun(r, "getWaterFeatureById", id, b)

\* the response to a request's fetch arrives and its handler runs to the end
Respond(r, response) ==
    /\ req[r].pc = "await"
    /\ response \in Responses(ValueOf(req[r].text))
    /\ \E e \in {IF req[r].op = "getAllFeaturesOfType"
                   THEN getAllFeaturesOfTypeEnd(cache, req[r].arg, response, defaultTTL, now)
                   ELSE getWaterFeatureByIdEnd(cache, req[r].arg, response, defaultTTL, now)} :
           /\ cache' = e.cache
           /\ req' = [req EXCEPT ![r].pc = "done", ![r].resp = {response},
                                 ![r].outcome = e.state, ![r].result = e.result,
                                 ![r].raw = e.raw,
                                 ![r].wrote = @ \cup Written(cache, e.cache),
                                 ![r].evicted = @ \cup Removed(cache, e.cache)]
    /\ UNCHANGED <<defaultTTL, now, last, hist, preload, started>>

\* the caller has taken the result; the slot serves the next request
Return(r) ==
    /\ req[r].pc = "done"
    /\ req' = [req EXCEPT ![r] = IdleRequest]
    /\ UNCHANGED <<cache, defaultTTL, now, last, hist, preload, started>>

\* the interval timer firing without running the cleanup
Timer_WithoutCleanup == UNCHANGED vars

\* server.js lines 43-46: the interval timer fires
Timer ==
    /\ cache' = cleanupExpiredEntries(cache, now)
    /\ UNCHANGED <<defaultTTL, now, last, hist, preload, started, req>>

Tick(d) ==
    /\ now \div HalfDay < MaxHalfDays
    /\ now' = now + d
    /\ UNCHANGED <<cache, defaultTTL, last, hist, preload, started, req>>

Next ==
    \/ PreloadStep
    \/ \E response \in AllResponses : PreloadResponse(response)
    \/ ServerListen
    \/ \E r \in Requests, type \in TypeArgs : StartByType(r, type)
    \/ \E r \in Requests, id \in IdArgs : StartById(r, id)
    \/ \E r \in Requests, response \in AllResponses : Respond(r, response)
    \/ \E r \in Requests : Return(r)
    \/ Timer
    \/ \E d \in {HalfDay + 1} : Tick(d)

Spec == Init /\ [][Next]_vars

-----------------------------------------------------------------------------
(* Requests racing: the listening server after a preload in which every    *)
(* query failed (nothing cached), with several requests in progress for    *)
(* one type and one id.                                                    *)

ConcRequests == 1..NumConc
ConcTypes    == {LAKE}
ConcIds      == {Q1}

InitConc ==
    /\ cache = {}
    /\ defaultTTL \in {parseInt(env) : env \in EnvCacheTTL}
    /\ now = 0
    /\ last = NoCall
    /\ hist = [k \in ApiKeys |-> NoSet]
    /\ preload = [PreloadStart EXCEPT !.pc = "returned"]
    /\ started = TRUE
    /\ req = [r \in ConcRequests |-> IdleRequest]

NextConc ==
    \/ \E r \in ConcRequests, type \in ConcTypes : StartByType(r, type)
    \/ \E r \in ConcRequests, id \in ConcIds : StartById(r, id)
    \/ \E r \in ConcRequests, response \in AllResponses : Respond(r, response)
    \/ \E r \in ConcRequests : Return(r)
    \/ Timer
    \/ \E d \in {HalfDay + 1} : Tick(d)

SpecConc == InitConc /\ [][NextConc]_vars

-----------------------------------------------------------------------------
(* The racing requests with the interval timer of server.js lines 43-46:   *)
(* setInterval runs the cleanup again and again for as long as the process *)
(* lives, so a cleanup that has something to remove is not put off forever. *)

\* the keys the racing requests store under
ConcKeys ==
    {AllKey(type) : type \in ConcTypes}
    \cup {hashString(TypeQuery(type)) : type \in ConcTypes}
    \cup {FeatureKey(id) : id \in ConcIds}
    \cup {hashString(buildWaterFeatureByIdQuery(id)) : id \in ConcIds}

SpecConcFair == SpecConc /\ WF_vars(Timer)

-----------------------------------------------------------------------------
(* The query builder and the fingerprint applied to a filter               *)
(* specification: the specification is drawn at the start, the builder is  *)
(* applied to it at any time, and the resolver's statements that build a   *)
(* query and run it (resolvers/index.js lines 40-43) are called with it.   *)

\* the resolver's catch passing the error on as it caught it
catch_Rethrows(result, message) == result

\* resolvers/index.js lines 44-47 and 53-56: an error thrown inside the try
\* block is logged and another, with the resolver's own message, is thrown
catch(result, message) == IF result.kind = "error" THEN Error(message) ELSE result

\* resolvers/index.js line 18: the resolver serves the request from the
\* type's list instead of building a query
usesTypeList(args) ==
    /\ Given(args.type) /\ ValueOf(args.type) # <<>>
    /\ ~(Given(args.region) /\ ValueOf(args.region) # <<>>)
    /\ ~(Given(args.minCapacity) /\ ValueOf(args.minCapacity) # 0)
    /\ ~(Given(args.minSurfaceArea) /\ ValueOf(args.minSurfaceArea) # 0)

\* resolvers/index.js lines 40-41, up to the fetch
buildAndQueryBegin(m, args, t) ==
    Let(buildWaterFeaturesQuery(args), LAMBDA sparqlQuery :
    Let(queryBegin(m, sparqlQuery, t), LAMBDA q :
        IF q.hit
        THEN Let(catch(transformResults(q.result), FETCHFAILEDMSG), LAMBDA result :
                 [state |-> Outcome(result), result |-> result,
                  cache |-> q.cache, text |-> {sparqlQuery}, raw |-> {q.result},
                  read |-> {hashString(sparqlQuery)}])
        ELSE [state |-> "await", result |-> Null, cache |-> q.cache,
              text |-> {sparqlQuery}, raw |-> {},
              read |-> {hashString(sparqlQuery)}]))

\* resolvers/index.js lines 41-47, from the response on
buildAndQueryEnd(m, sparqlQuery, response, ttl, t) ==
    Let(queryEnd(m, sparqlQuery, response, ttl, t), LAMBDA q :
        IF q.threw
        THEN [state |-> "threw", result |-> catch(q.result, FETCHFAILEDMSG),
              cache |-> q.cache, raw |-> {}]
        ELSE Let(catch(transformResults(q.result), FETCHFAILEDMSG), LAMBDA result :
                 [state |-> Outcome(result), result |-> result,
                  cache |-> q.cache, raw |-> {q.result}]))

InitBuild ==
    /\ cache = {}
    /\ defaultTTL \in {parseInt(env) : env \in EnvCacheTTL}
    /\ now = 0
    /\ last \in {[op |-> "args", args |-> args] : args \in BuildArgs}
    /\ hist = [k \in ApiKeys |-> NoSet]
    /\ preload = [PreloadStart EXCEPT !.pc = "returned"]
    /\ started = TRUE
    /\ req = [r \in Requests |-> IdleRequest]

\* the builder and the fingerprint applied to the specification; the call
\* before it, if any, is kept for comparison
BuildQuery ==
    /\ \E sparqlQuery \in {buildWaterFeaturesQuery(last.args)} :
          last' = [op |-> "build", args |-> last.args,
                   text |-> sparqlQuery, key |-> hashString(sparqlQuery),
                   at |-> now, stored |-> cache,
                   before |-> IF last.op = "build"
                              THEN {[text |-> last.text, key |-> last.key,
                                     at |-> last.at, stored |-> last.stored]}
                              ELSE {}]
    /\ UNCHANGED <<cache, defaultTTL, now, hist, preload, started, req>>

\* the resolver called with the specification reaches line 40
StartFiltered(r) ==
    /\ started
    /\ req[r].pc = "idle"
    /\ ~usesTypeList(last.args)
    /\ \E b \in {buildAndQueryBegin(cache, last.args, now)} :
          /\ cache' = b.cache
          /\ req' = [req EXCEPT ![r] =
                        [pc |-> IF b.state = "await" THEN "await" ELSE "done",
                         op |-> "waterFeatures", arg |-> last.args, text |-> b.text,
                         calls |-> IF b.state = "await" THEN 1 ELSE 0,
                         resp |-> {},
                         outcome |-> IF b.state = "await" THEN "none" ELSE b.state,
                         result |-> b.result, raw |-> b.raw, read |-> b.read,
                         wrote |-> Written(cache, b.cache),
                         evicted |-> Removed(cache, b.cache)]]
    /\ UNCHANGED <<defaultTTL, now, last, hist, preload, started>>

\* the response to the resolver's fetch arrives and it runs to the end
RespondFiltered(r, response) ==
    /\ req[r].pc = "await"
    /\ req[r].op = "waterFeatures"
    /\ response \in Responses(ValueOf(req[r].text))
    /\ \E e \in {buildAndQueryEnd(cache, ValueOf(req[r].text), response, defaultTTL, now)} :
           /\ cache' = e.cache
           /\ req' = [req EXCEPT ![r].pc = "done", ![r].resp = {response},
                                 ![r].outcome = e.state, ![r].result = e.result,
                                 ![r].raw = e.raw,
                                 ![r].wrote = @ \cup Written(cache, e.cache),
                                 ![r].evicted = @ \cup Removed(cache, e.cache)]
    /\ UNCHANGED <<defaultTTL, now, last, hist, preload, started>>

NextBuild ==
    \/ BuildQuery
    \/ \E r \in Requests : StartFiltered(r)
    \/ \E r \in Requests, response \in AllResponses : RespondFiltered(r, response)
    \/ \E r \in Requests : Return(r)
    \/ Timer
    \/ \E d \in {HalfDay + 1} : Tick(d)

SpecBuild == InitBuild /\ [][NextBuild]_vars

-----------------------------------------------------------------------------
(* The builder on its own: a specification is drawn and the builder        *)
(* applied to it, now or later.                                            *)

NextBuilder ==
    \/ BuildQuery
    \/ \E d \in {HalfDay + 1} : Tick(d)

SpecBuilder == InitBuild /\ [][NextBuilder]_vars

-----------------------------------------------------------------------------
(* The resolvers (resolvers/index.js): waterFeatures, which serves a       *)
(* request for a type alone from the type's list, sorted and cut to a page *)
(* in memory, and every other request by a query of its own; and           *)
(* waterFeature.  The listening server after a preload in which every      *)
(* query failed.                                                           *)

\* `Failed to fetch water feature ${id} from Wikidata` (line 55)
FeatureFailedMsg(id) ==
    <<70, 97, 105, 108, 101, 100, 32, 116, 111, 32, 102, 101, 116, 99, 104, 32, 119, 97, 116, 101, 114, 32, 102, 101, 97, 116, 117, 114, 101, 32>> \o id \o <<32, 102, 114, 111, 109, 32, 87, 105, 107, 105, 100, 97, 116, 97>>

RECURSIVE Pow10(_)
Pow10(n) == IF n = 0 THEN 1 ELSE 10 * Pow10(n - 1)

\* the sign of a - b, for numbers that are not NaN; 0 when a - b is 0 or NaN
SignOfDifference(a, b) ==
    IF a.inf /\ b.inf THEN (IF a.m = b.m THEN 0 ELSE a.m)
    ELSE IF a.inf THEN a.m
    ELSE IF b.inf THEN 0 - b.m
    ELSE Let(IF a.e < b.e THEN a.e ELSE b.e, LAMBDA e :
         Let(a.m * Pow10(a.e - e) - b.m * Pow10(b.e - e), LAMBDA d :
             IF d > 0 THEN 1 ELSE IF d < 0 THEN 0 - 1 ELSE 0))

\* a[args.sortBy] || 0 (lines 25-26): {} for a value that is not a number (a
\* name, taken not to read as one), else the number; a field the feature
\* has not, a null and a NaN give 0
sortValue(feature, sortBy) ==
    CASE sortBy = NAME -> {}
      [] sortBy = CAPACITY ->
            IF feature.capacity = {} \/ ~TruthyNumber(ValueOf(feature.capacity))
            THEN {Float(0, 0)}
            ELSE feature.capacity
      [] OTHER -> {Float(0, 0)}

\* the comparison function of lines 24-28: the sign of what it returns (a
\* NaN counts as 0)
compare(a, b, args) ==
    Let(sortValue(a, ValueOf(args.sortBy)), LAMBDA aValue :
    Let(sortValue(b, ValueOf(args.sortBy)), LAMBDA bValue :
        IF aValue = {} \/ bValue = {} THEN 0
        ELSE IF args.sortOrder = {DESC}
        THEN SignOfDifference(ValueOf(bValue), ValueOf(aValue))
        ELSE SignOfDifference(ValueOf(aValue), ValueOf(bValue))))

\* x put into the sorted list s behind the items that do not come after it
insert(s, x, args) ==
    Let(Cardinality({i \in 1..Len(s) : compare(s[i], x, args) <= 0}), LAMBDA k :
        SubSeq(s, 1, k) \o <<x>> \o SubSeq(s, k + 1, Len(s)))

RECURSIVE sortFirst(_, _, _)
\* the first n items sorted, equal ones in the order they had
sortFirst(items, n, args) ==
    IF n = 0 THEN <<>> ELSE insert(sortFirst(items, n - 1, args), items[n], args)

\* features.sort(...) (lines 23-29): the array afterwards; Array.prototype.sort
\* sorts the array itself, and is stable
sort(items, args) ==
    IF Given(args.sortBy) /\ ValueOf(args.sortBy) # <<>>
    THEN sortFirst(items, Len(items), args)
    ELSE items

\* items.slice(start, end), for start and end that are not negative
slice(items, start, end) ==
    SubSeq(items, start + 1, IF end < Len(items) THEN end ELSE Len(items))

\* lines 23-36, for the array that getAllFeaturesOfType has returned, which is
\* the one stored under ALL_<type>: the page returned, and the cache with the
\* array as the sort has left it
sortAndSlice(m, type, features, args) ==
    Let(sort(features.items, args), LAMBDA sorted :
    Let(IF Given(args.offset) /\ ValueOf(args.offset) # 0 THEN ValueOf(args.offset) ELSE 0,
        LAMBDA offset :
    Let(IF Given(args.limit) /\ ValueOf(args.limit) # 0 THEN ValueOf(args.limit) ELSE 100,
        LAMBDA limit :
        [result |-> Features(slice(sorted, offset, offset + limit)),
         cache |-> MapSet(m, AllKey(type),
                          [data |-> Features(sorted),
                           expiryTime |-> MapGet(m, AllKey(type)).expiryTime])])))

\* what the resolver makes of the call of getAllFeaturesOfType that has ended
listed(b, args) ==
    IF b.state = "threw" THEN [b EXCEPT !.result = catch(b.result, FETCHFAILEDMSG)]
    ELSE Let(sortAndSlice(b.cache, ValueOf(args.type), b.result, args), LAMBDA page :
             [b EXCEPT !.result = page.result, !.cache = page.cache])

\* waterFeatures (lines 15-48), up to the fetch
waterFeaturesBegin(m, args, t) ==
    IF usesTypeList(args)
    THEN Let(getAllFeaturesOfTypeBegin(m, ValueOf(args.type), t), LAMBDA b :
             IF b.state = "await" THEN b ELSE listed(b, args))
    ELSE buildAndQueryBegin(m, args, t)

\* waterFeatures, from the response on
waterFeaturesEnd(m, args, sparqlQuery, response, ttl, t) ==
    IF usesTypeList(args)
    THEN listed(getAllFeaturesOfTypeEnd(m, ValueOf(args.type), response, ttl, t), args)
    ELSE buildAndQueryEnd(m, sparqlQuery, response, ttl, t)

\* waterFeature (lines 50-57), up to the fetch and from the response on
waterFeatureBegin(m, id, ttl, t) ==
    Let(getWaterFeatureByIdBegin(m, id, ttl, t), LAMBDA b :
        [b EXCEPT !.result = catch(b.result, FeatureFailedMsg(id))])

waterFeatureEnd(m, id, response, ttl, t) ==
    Let(getWaterFeatureByIdEnd(m, id, response, ttl, t), LAMBDA e :
        [e EXCEPT !.result = catch(e.result, FeatureFailedMsg(id))])

ResolveIds == {Q1}

InitResolve ==
    /\ cache = {}
    /\ defaultTTL \in {parseInt(env) : env \in EnvCacheTTL}
    /\ now = 0
    /\ last = NoCall
    /\ hist = [k \in ApiKeys |-> NoSet]
    /\ preload = [PreloadStart EXCEPT !.pc = "returned"]
    /\ started = TRUE
    /\ req = [r \in Requests |-> IdleRequest]

\* a call of the resolver waterFeatures, up to its fetch
StartWaterFeatures(r, args) ==
    /\ started
    /\ req[r].pc = "idle"
    /\ \E b \in {waterFeaturesBegin(cache, args, now)} :
          Begun(r, "waterFeatures", args, b)

\* a call of the resolver waterFeature, up to its fetch
StartWaterFeature(r, id) ==
    /\ started
    /\ req[r].pc = "idle"
    /\ \E b \in {waterFeatureBegin(cache, id, defaultTTL, now)} :
          Begun(r, "waterFeature", id, b)

\* the response to a resolver's fetch arrives and it runs to the end
RespondResolver(r, response) ==
    /\ req[r].pc = "await"
    /\ response \in Responses(ValueOf(req[r].text))
    /\ \E e \in {IF req[r].op = "waterFeatures"
                   THEN waterFeaturesEnd(cache, req[r].arg, ValueOf(req[r].text),
                                         response, defaultTTL, now)
                   ELSE waterFeatureEnd(cache, req[r].arg, response, defaultTTL, now)} :
           /\ cache' = e.cache
           /\ req' = [req EXCEPT ![r].pc = "done", ![r].resp = {response},
                                 ![r].outcome = e.state, ![r].result = e.result,
                                 ![r].raw = e.raw,
                                 ![r].wrote = @ \cup Written(cache, e.cache),
                                 ![r].evicted = @ \cup Removed(cache, e.cache)]
    /\ UNCHANGED <<defaultTTL, now, last, hist, preload, started>>

NextResolve ==
    \/ \E r \in Requests, args \in ResolveArgs : StartWaterFeatures(r, args)
    \/ \E r \in Requests, id \in ResolveIds : StartWaterFeature(r, id)
    \/ \E r \in Requests, response \in AllResponses : RespondResolver(r, response)
    \/ \E r \in Requests : Return(r)
    \/ Timer
    \/ \E d \in {HalfDay + 1} : Tick(d)

SpecResolve == InitResolve /\ [][NextResolve]_vars

-----------------------------------------------------------------------------
(* transformResults on its own: a raw result is drawn and transformResults *)
(* applied to it, now or later.                                            *)

\* type labels the remote endpoint may send
TypeLabels ==
    {<<108, 97, 107, 101>>, <<65, 114, 116, 105, 102, 105, 99, 105, 97, 108, 32, 68, 97, 109>>, <<82, 101, 115, 101, 114, 118, 111, 105, 114, 32, 76, 97, 107, 101>>, <<114, 105, 118, 101, 114, 32, 100, 97, 109>>, <<82, 73, 86, 69, 82>>,
     <<76, 97, 107, 101, 32, 82, 105, 118, 101, 114>>, <<114, 101, 115, 101, 114, 118, 111, 105, 114, 32, 111, 110, 32, 97, 32, 114, 105, 118, 101, 114>>, <<112, 111, 110, 100>>, <<>>}

\* numbers as the endpoint writes them, with the value each stands for
Numerals ==
    {[text |-> <<50, 51, 46, 53>>, value |-> Float(235, 0 - 1)],
     [text |-> <<52, 50, 46, 49>>, value |-> Float(421, 0 - 1)],
     [text |-> <<48>>,    value |-> Float(0, 0)],
     [text |-> <<45, 48, 46, 53>>, value |-> Float(0 - 5, 0 - 1)],
     [text |-> <<50, 53>>,   value |-> Float(25, 0)]}

\* `Point(${lon} ${lat})`
PointText(lon, lat) == <<80, 111, 105, 110, 116, 40>> \o lon \o <<32>> \o lat \o <<41>>

\* coordinate texts that are not of the form Point(<lon> <lat>)
Malformed ==
    {<<50, 51, 46, 53, 32, 52, 50, 46, 49>>, <<80, 111, 105, 110, 116, 40, 50, 51, 46, 53, 44, 52, 50, 46, 49, 41>>, <<80, 79, 73, 78, 84, 40, 50, 51, 46, 53, 32, 52, 50, 46, 49, 41>>, <<80, 111, 105, 110, 116, 40, 50, 51, 46, 53, 32, 52, 50, 46, 49>>}

\* a text of the form Point(<lon> <lat>) whose parts are not numbers
NOTNUMBERS == PointText(<<101, 97, 115, 116>>, <<110, 111, 114, 116, 104>>)

CoordTexts ==
    {PointText(lon.text, lat.text) : lon \in Numerals, lat \in Numerals}
    \cup Malformed \cup {NOTNUMBERS}

RawBindings ==
    {[item |-> Binding(Q1, <<>>).item, typeLabel |-> typeLabel, coord |-> coord,
      capacity |-> {}] :
        typeLabel \in { {} } \cup {{label} : label \in TypeLabels},
        coord \in { {} } \cup {{text} : text \in CoordTexts}}

TransformInputs ==
    {Raw(<<binding>>) : binding \in RawBindings}
    \cup {RawNoResults, RawNoBindings, Raw(<<>>), RawNotAList, Null}

InitTransform ==
    /\ cache = {}
    /\ defaultTTL \in {parseInt(env) : env \in EnvCacheTTL}
    /\ now = 0
    /\ last \in {[op |-> "raw", results |-> results] : results \in TransformInputs}
    /\ hist = [k \in ApiKeys |-> NoSet]
    /\ preload = [PreloadStart EXCEPT !.pc = "returned"]
    /\ started = TRUE
    /\ req = [r \in Requests |-> IdleRequest]

\* transformResults applied to the raw result
Transform ==
    /\ last' = [op |-> "transformed", results |-> last.results,
                features |-> transformResults(last.results), at |-> now]
    /\ UNCHANGED <<cache, defaultTTL, now, hist, preload, started, req>>

NextTransform ==
    \/ Transform
    \/ \E d \in {HalfDay + 1} : Tick(d)

SpecTransform == InitTransform /\ [][NextTransform]_vars

-----------------------------------------------------------------------------
(* hashString on its own: a cache manager constructed, and hashString      *)
(* called with a string.                                                   *)

MaxPrefix == 100     \* the longest beginning of a query text hashed
MaxRun    == 8       \* the longest run of one code unit hashed
MaxShort  == 3       \* the longest string made of the code units below

\* code units of the short strings: 'A', 'B', 'a', a surrogate and 0xFFFF
HashUnits == {65, 66, 97, 55357, 65535}

\* the strings hashed: every beginning, up to MaxPrefix code units, of a
\* query text; short strings of every make; runs of the largest code unit
HashInputs ==
    {SubSeq(TypeQuery(LAKE), 1, n) : n \in 0..MaxPrefix}
    \cup UNION {[1..n -> HashUnits] : n \in 0..MaxShort}
    \cup {[i \in 1..n |-> 65535] : n \in 0..MaxRun}

InitHash ==
    /\ cache = {}
    /\ defaultTTL \in {parseInt(env) : env \in EnvCacheTTL}
    /\ now = 0
    /\ last \in {[op |-> "str", str |-> str] : str \in HashInputs}
    /\ hist = [k \in ApiKeys |-> NoSet]
    /\ preload = PreloadStart
    /\ started = FALSE
    /\ req = [r \in Requests |-> IdleRequest]

\* hashString applied to the string
Hash ==
    /\ last.op = "str"
    /\ last' = [op |-> "hashed", str |-> last.str, key |-> hashString(last.str)]
    /\ UNCHANGED <<cache, defaultTTL, now, hist, preload, started, req>>

NextHash == Hash

SpecHash == InitHash /\ [][NextHash]_vars

-----------------------------------------------------------------------------
(* The cache API's contract (properties of SpecCache).                  *)

EntriesOf(m, k) == {e \in m : e.key = k}

\* C1: get(k) returns the data of the most recent set(k, v, ttl) exactly when
\* there is one since the last clear and the current time is at most that
\* set's time plus its ttl; otherwise it returns null.  (time + NaN is NaN,
\* and no time is at most NaN.)
C1_GetIffWithinTtl ==
    last.op = "get" =>
        LET h == hist[last.key]
        IN  IF h.kind = "set" /\ (~h.ttl.nan) /\ now <= h.time + h.ttl.v
            THEN last.data = h.data
            ELSE last.data = Null

\* C1, for the sets whose ttl is a number: get(k) returns the data of the most
\* recent set exactly when the current time is at most its time plus its ttl.
C1_GetReturnsLatestLiveSet ==
    last.op = "get" =>
        LET h == hist[last.key]
        IN  CASE h.kind = "none" -> last.data = Null
              [] h.kind = "set" /\ h.ttl.nan -> TRUE
              [] OTHER ->
                    /\ (now <= h.time + h.ttl.v) => last.data = h.data
                    /\ (now > h.time + h.ttl.v) => last.data = Null

\* a get at the very expiry time of an entry set earlier returned its data
C1_Witness ==
    /\ last.op = "get"
    /\ hist[last.key].kind = "set"
    /\ ~hist[last.key].ttl.nan
    /\ hist[last.key].time < now
    /\ now = hist[last.key].time + hist[last.key].ttl.v
    /\ last.data = hist[last.key].data

\* C2: the store never holds two entries for one key, and right after a set
\* the key's only entry carries that set's value and the expiry call time
\* plus ttl, whatever was stored under the key before.
C2_OneEntryPerKey ==
    /\ \A e1 \in cache, e2 \in cache : e1.key = e2.key => e1 = e2
    /\ last.op = "set" =>
          EntriesOf(cache, last.key) =
              {[key |-> last.key, data |-> hist[last.key].data,
                expiryTime |-> Plus(now, hist[last.key].ttl)]}

\* a set replaced an entry with another value and another expiry
C2_Witness ==
    /\ last.op = "set"
    /\ last.overwrote
    /\ Cardinality(EntriesOf(cache, last.key)) = 1

\* C3: a cleanup removes exactly the entries whose expiry is earlier than the
\* call time: none with expiry < now remains, every entry with expiry >= now
\* stays as it was, and nothing is added.
C3_CleanupExact ==
    [][ last'.op = "cleanup" =>
          /\ cache' \subseteq cache
          /\ \A e \in cache' : ~((~e.expiryTime.nan) /\ e.expiryTime.v < now)
          /\ \A e \in cache : ((~e.expiryTime.nan) /\ e.expiryTime.v >= now) => e \in cache'
      ]_vars

\* after a cleanup: one key's entry is gone, another key's entry, expiring
\* at this very time, is still there
C3_Witness ==
    /\ last.op = "cleanup"
    /\ \E k \in ApiKeys : hist[k].kind = "set" /\ ~MapHas(cache, k)
    /\ \E e \in cache : (~e.expiryTime.nan) /\ e.expiryTime.v = now

\* C4: a get on an entry whose expiry has passed returns null and removes
\* that entry and no other (the size drops by one); a get on a live or
\* missing key leaves the store as it was.
C4_LazyEviction ==
    [][ last'.op = "get" =>
          LET k == last'.key
              expired == \E e \in cache : e.key = k /\ (~e.expiryTime.nan) /\ e.expiryTime.v < now
          IN  IF expired
              THEN /\ last'.data = Null
                   /\ cache' = {e \in cache : e.key # k}
                   /\ Cardinality(cache') = Cardinality(cache) - 1
              ELSE cache' = cache
      ]_vars

\* a get found its key expired and removed it, while another entry stayed
C4_Witness ==
    /\ last.op = "get"
    /\ last.had
    /\ last.data = Null
    /\ ~MapHas(cache, last.key)
    /\ cache # {}

-----------------------------------------------------------------------------
(* The client's contract (properties of Spec).                          *)

\* the entries get(k) would return at time t
LiveEntries(m, k, t) == {e \in m : e.key = k /\ ~Later(t, e.expiryTime)}

\* the step of request r is the first half of a call of op
Starts(r, op) == req[r].pc = "idle" /\ req'[r].op = op

\* the step of request r is the second half of its call
Ends(r) == req[r].pc = "await" /\ req'[r].pc = "done"

\* C5: query(text) returns the data of the live entry under the fingerprint
\* of text without calling the transport when there is one; otherwise it
\* calls the transport once, and when the response is a success stores the
\* raw result under the fingerprint with the default TTL and returns it.
C5_QueryCacheThenTransport ==
    [][ /\ \A r \in Requests :
             /\ (req[r].pc = "idle" /\ req'[r].text # {}) =>
                   LET live == LiveEntries(cache, hashString(ValueOf(req'[r].text)), now)
                   IN  IF live # {}
                       THEN /\ req'[r].calls = 0
                            /\ req'[r].pc = "done"
                            /\ req'[r].raw = {e.data : e \in live}
                       ELSE /\ req'[r].calls = 1
                            /\ req'[r].pc = "await"
                            /\ req'[r].raw = {}
             /\ (Ends(r) /\ ValueOf(req'[r].resp).ok) =>
                   /\ req'[r].calls = 1
                   /\ req'[r].raw = {ValueOf(req'[r].resp).body}
                   /\ EntriesOf(cache', hashString(ValueOf(req[r].text))) =
                         {[key |-> hashString(ValueOf(req[r].text)),
                           data |-> ValueOf(req'[r].resp).body,
                           expiryTime |-> Plus(now, defaultTTL)]}
        /\ (preload.pc = "loop" /\ preload'.pc = "await") =>
              /\ LiveEntries(cache, hashString(TypeQuery(waterFeatureTypes[preload.i])), now) = {}
              /\ preload'.calls = preload.calls + 1
        /\ (preload.pc = "await" /\ preload'.ok # preload.ok) =>
              \E e \in cache' :
                  /\ e.key = hashString(TypeQuery(waterFeatureTypes[preload.i]))
                  /\ e.data.kind = "raw"
                  /\ e.expiryTime = Plus(now, defaultTTL)
      ]_vars

\* a call of query answered from the cache: no transport call, the raw result
\* handed back
C5_Witness ==
    \E r \in Requests :
        /\ req[r].pc = "done"
        /\ req[r].text # {}
        /\ req[r].calls = 0
        /\ req[r].raw # {}
        /\ req[r].outcome = "returned"

\* C6: from the end of a preload in which every transport call succeeded,
\* the store holds, for each of the four types, one entry under ALL_<type>
\* whose expiry is 12 hours after the preload stored it, until that expiry
\* has passed; and getAllFeaturesOfType of a type with a live entry returns
\* that entry's list and calls no transport.
C6_PreloadedListsServeRequests ==
    /\ [](preload.pc \in {"done", "returned"} /\ preload.ok = AllTypes =>
            \A i \in 1..Len(waterFeatureTypes) :
                now <= ValueOf(preload.storedAt[i]) + HalfDay =>
                    /\ Cardinality(EntriesOf(cache, AllKey(waterFeatureTypes[i]))) = 1
                    /\ \A e \in EntriesOf(cache, AllKey(waterFeatureTypes[i])) :
                          /\ e.expiryTime = Num(ValueOf(preload.storedAt[i]) + HalfDay)
                          /\ e.data.kind = "list")
    /\ [][ \A r \in Requests :
                 (/\ Starts(r, "getAllFeaturesOfType")
                  /\ IsWaterFeatureType(req'[r].arg)
                  /\ LiveEntries(cache, AllKey(req'[r].arg), now) # {}) =>
                     /\ req'[r].outcome = "returned"
                     /\ {req'[r].result} =
                           {e.data : e \in LiveEntries(cache, AllKey(req'[r].arg), now)}
                     /\ req'[r].calls = 0
                     /\ req'[r].pc = "done"
         ]_vars

\* after a preload that loaded every type, a request for a type was answered
\* with the preloaded list of two features, without a transport call
C6_Witness ==
    /\ started
    /\ preload.ok = AllTypes
    /\ \E r \in Requests :
          /\ req[r].pc = "done"
          /\ req[r].op = "getAllFeaturesOfType"
          /\ req[r].outcome = "returned"
          /\ req[r].calls = 0
          /\ req[r].result.kind = "list"
          /\ Len(req[r].result.items) = 2
          /\ LiveEntries(cache, AllKey(req[r].arg), now) # {}

\* C7: whichever of its queries fail, preloadCache calls the transport for
\* all four types and comes to its end; every type is then either loaded or
\* logged as failed, each loaded type has its entry under ALL_<type> (until
\* its 12 hours have passed), and the server goes on to listen.
C7_PreloadIsolatesFailures ==
    /\ preload.pc = "loop" => ENABLED PreloadStep
    /\ preload.pc = "await" => ENABLED (\E response \in AllResponses : PreloadResponse(response))
    /\ preload.pc = "done" =>
          /\ preload.calls = Len(waterFeatureTypes)
          /\ preload.ok \cup preload.caught = AllTypes
          /\ preload.ok \cap preload.caught = {}
          /\ \A i \in 1..Len(waterFeatureTypes) :
                (/\ waterFeatureTypes[i] \in preload.ok
                 /\ now <= ValueOf(preload.storedAt[i]) + HalfDay) =>
                    Cardinality(EntriesOf(cache, AllKey(waterFeatureTypes[i]))) = 1
          /\ ENABLED ServerListen

\* the preload has ended with the first and third query failed and the
\* second and fourth loaded
C7_Witness ==
    /\ preload.pc = "done"
    /\ preload.caught = {LAKE, RESERVOIR}
    /\ preload.ok = {DAM, RIVER}
    /\ preload.calls = 4
    /\ MapHas(cache, AllKey(DAM))
    /\ MapHas(cache, AllKey(RIVER))
    /\ ~MapHas(cache, AllKey(LAKE))
    /\ ~MapHas(cache, AllKey(RESERVOIR))

\* the call of request r that has just ended was answered by a failure
Failed(r) == req[r].pc = "done" /\ req[r].resp # {} /\ ~ValueOf(req[r].resp).ok

\* C8 as stated: a call whose transport response is not a success ends with
\* an error carrying the remote body, and has left the store exactly as it
\* was: it stored nothing and removed nothing.
C8_StoreExactlyAsBefore ==
    \A r \in Requests :
        Failed(r) =>
            /\ req[r].outcome = "threw"
            /\ req[r].result = Error(FAILEDMSG \o ValueOf(req[r].resp).body.text)
            /\ req[r].wrote = {}
            /\ req[r].evicted = {}

\* C8: a call whose transport response is not a success ends with an error
\* carrying the remote body and has stored nothing; what it has removed are
\* entries that had expired when it looked them up before its fetch, and the
\* step that handles the response leaves the store as it is.
C8_FailedCallStoresNothing ==
    /\ [](\A r \in Requests :
            Failed(r) =>
                /\ req[r].outcome = "threw"
                /\ req[r].result = Error(FAILEDMSG \o ValueOf(req[r].resp).body.text)
                /\ req[r].wrote = {})
    /\ [][\A r \in Requests :
            /\ (req[r].pc = "idle" /\ req'[r].pc = "await") =>
                  /\ cache' \subseteq cache
                  /\ \A e \in cache \ cache' : Later(now, e.expiryTime)
                  /\ req'[r].evicted = {e.key : e \in cache \ cache'}
            /\ (Ends(r) /\ ~ValueOf(req'[r].resp).ok) => cache' = cache
         ]_vars

\* a call failed after it had removed an expired entry
C8_Witness ==
    \E r \in Requests :
        /\ Failed(r)
        /\ req[r].outcome = "threw"
        /\ req[r].evicted # {}
        /\ req[r].wrote = {}

\* C9: getAllFeaturesOfType of a type outside LAKE, DAM, RESERVOIR, RIVER
\* throws the invalid-type error; it looks up no key, changes nothing in the
\* store and calls no transport.
C9_InvalidTypeRejected ==
    [][\A r \in Requests :
          (Starts(r, "getAllFeaturesOfType") /\ req'[r].arg \notin AllTypes) =>
              /\ req'[r].pc = "done"
              /\ req'[r].outcome = "threw"
              /\ req'[r].result = Error(INVALIDMSG \o req'[r].arg)
              /\ req'[r].read = {}
              /\ req'[r].wrote = {}
              /\ cache' = cache
              /\ req'[r].calls = 0
              /\ req'[r].text = {}
      ]_vars

\* a request for the type POND was rejected while the store held entries
C9_Witness ==
    \E r \in Requests :
        /\ req[r].pc = "done"
        /\ req[r].op = "getAllFeaturesOfType"
        /\ req[r].arg = POND
        /\ req[r].outcome = "threw"
        /\ cache # {}

\* the types, by their place in the order, whose live list holds a feature id
TypesHolding(m, id, t) ==
    {i \in 1..Len(waterFeatureTypes) :
        \E e \in LiveEntries(m, AllKey(waterFeatureTypes[i]), t) :
            \E j \in 1..Len(e.data.items) : e.data.items[j].id = id}

\* C10: when some live list under an ALL_ key holds a feature with the id,
\* getWaterFeatureById returns the feature with that id from the list of the
\* first such type in the order LAKE, DAM, RESERVOIR, RIVER, calls no
\* transport and stores nothing.
C10_ByIdFromTypeLists ==
    [][\A r \in Requests :
          (Starts(r, "getWaterFeatureById") /\ TypesHolding(cache, req'[r].arg, now) # {}) =>
              LET holding == TypesHolding(cache, req'[r].arg, now)
                  first   == CHOOSE i \in holding : \A k \in holding : i <= k
                  list    == (CHOOSE e \in LiveEntries(cache, AllKey(waterFeatureTypes[first]), now) : TRUE).data
              IN  /\ req'[r].pc = "done"
                  /\ req'[r].outcome = "returned"
                  /\ \E j \in 1..Len(list.items) :
                        /\ list.items[j].id = req'[r].arg
                        /\ req'[r].result = list.items[j]
                  /\ req'[r].calls = 0
                  /\ req'[r].text = {}
                  /\ req'[r].wrote = {}
      ]_vars

\* a feature held by the LAKE list and, with another type, by the RIVER list
\* was returned as the LAKE list holds it
C10_Witness ==
    \E r \in Requests :
        /\ req[r].pc = "done"
        /\ req[r].op = "getWaterFeatureById"
        /\ req[r].arg = Q1
        /\ req[r].calls = 0
        /\ req[r].result.kind = "feature"
        /\ req[r].result.type = LAKE
        /\ \E e \in LiveEntries(cache, AllKey(RIVER), now) :
              \E j \in 1..Len(e.data.items) :
                  e.data.items[j].id = Q1 /\ e.data.items[j].type # LAKE

\* the step in which request r, a getWaterFeatureById that found its id in no
\* list, has the raw result of its query in hand
GotRawById(r) ==
    /\ req'[r].op = "getWaterFeatureById"
    /\ req'[r].raw # {}
    /\ \/ req[r].pc = "idle" /\ TypesHolding(cache, req'[r].arg, now) = {}
       \/ Ends(r)

\* C11: getWaterFeatureById(id) with the id in no live list goes through
\* query() with the single-entity query; when transformResults of the raw
\* result has a record, the first is stored under FEATURE_<id> with the
\* default TTL and returned; when it has none, null is returned and nothing
\* is stored under FEATURE_<id>.
C11_ByIdThroughQuery ==
    [][\A r \in Requests :
          /\ (Starts(r, "getWaterFeatureById") /\ TypesHolding(cache, req'[r].arg, now) = {}) =>
                req'[r].text = {buildWaterFeatureByIdQuery(req'[r].arg)}
          /\ GotRawById(r) =>
                LET id      == req'[r].arg
                    records == transformResults(ValueOf(req'[r].raw)).items
                IN  /\ req'[r].outcome = "returned"
                    /\ IF Len(records) > 0
                       THEN /\ req'[r].result = records[1]
                            /\ EntriesOf(cache', FeatureKey(id)) =
                                  {[key |-> FeatureKey(id), data |-> records[1],
                                    expiryTime |-> Plus(now, defaultTTL)]}
                       ELSE /\ req'[r].result = Null
                            /\ EntriesOf(cache', FeatureKey(id)) = EntriesOf(cache, FeatureKey(id))
                            /\ FeatureKey(id) \notin req'[r].wrote
      ]_vars

\* a feature fetched for an id that no list held was returned and stored
\* under FEATURE_<id>
C11_Witness ==
    \E r \in Requests :
        /\ req[r].pc = "done"
        /\ req[r].op = "getWaterFeatureById"
        /\ req[r].calls = 1
        /\ req[r].result.kind = "feature"
        /\ req[r].result.id = req[r].arg
        /\ FeatureKey(req[r].arg) \in req[r].wrote
        /\ \E e \in cache : e.key = FeatureKey(req[r].arg) /\ e.data = req[r].result

\* a request for an id the remote end does not know returned null with nothing
\* stored under FEATURE_<id>
C11_WitnessNone ==
    \E r \in Requests :
        /\ req[r].pc = "done"
        /\ req[r].op = "getWaterFeatureById"
        /\ req[r].calls = 1
        /\ req[r].outcome = "returned"
        /\ req[r].result = Null
        /\ ~MapHas(cache, FeatureKey(req[r].arg))

-----------------------------------------------------------------------------
(* Requests racing (properties of SpecConc).                               *)

\* request r is between its cache miss and its response, or has ended after
\* a transport call of its own
Missed(r) == req[r].calls = 1 /\ req[r].text # {}

\* C12: a request that misses the cache while another request for the same
\* text is waiting for its response makes a transport call of its own; each
\* success response is written under the text's fingerprint by the request
\* it answers, and after each write the fingerprint has exactly one entry,
\* holding the result written last.
C12_NoDeduplicationLastWriteWins ==
    [][\A r \in ConcRequests :
          /\ (/\ req[r].pc = "idle"
              /\ req'[r].text # {}
              /\ LiveEntries(cache, hashString(ValueOf(req'[r].text)), now) = {}) =>
                 /\ req'[r].pc = "await"
                 /\ req'[r].calls = 1
          /\ (Ends(r) /\ ValueOf(req'[r].resp).ok) =>
                 /\ req'[r].calls = 1
                 /\ EntriesOf(cache', hashString(ValueOf(req[r].text))) =
                       {[key |-> hashString(ValueOf(req[r].text)),
                         data |-> ValueOf(req'[r].resp).body,
                         expiryTime |-> Plus(now, defaultTTL)]}
      ]_vars

\* two requests for one text both missed and both fetched (cached results
\* never expire here, so neither had stored when the other missed); they got
\* different results, both wrote, and the fingerprint has one entry
C12_Witness ==
    /\ defaultTTL.nan
    /\ \E r1 \in ConcRequests, r2 \in ConcRequests :
          /\ r1 # r2
          /\ req[r1].pc = "done" /\ req[r2].pc = "done"
          /\ Missed(r1) /\ Missed(r2)
          /\ req[r1].text = req[r2].text
          /\ ValueOf(req[r1].resp).ok /\ ValueOf(req[r2].resp).ok
          /\ ValueOf(req[r1].resp).body # ValueOf(req[r2].resp).body
          /\ hashString(ValueOf(req[r1].text)) \in req[r1].wrote \cap req[r2].wrote
          /\ Cardinality(EntriesOf(cache, hashString(ValueOf(req[r1].text)))) = 1

\* C13: however the requests and the cleanup timer interleave, every entry
\* of the store has a data value and an expiry time and no key has two
\* entries; the timer can always run and a call fails only on a failed
\* transport response or an invalid type; and an entry leaves the store only
\* when its expiry has passed or when its key is set again, so what was set
\* stays readable until then.
C13_StoreNeverCorrupted ==
    /\ [](/\ \A e \in cache : DOMAIN e = {"key", "data", "expiryTime"}
          /\ \A e \in cache : DOMAIN e.expiryTime = {"nan", "v"} /\ e.data.kind # "null"
          /\ \A e1 \in cache, e2 \in cache : e1.key = e2.key => e1 = e2
          /\ ENABLED Timer
          /\ \A r \in ConcRequests :
                (req[r].pc = "done" /\ req[r].outcome = "threw") =>
                    \/ req[r].resp # {} /\ ~ValueOf(req[r].resp).ok
                    \/ req[r].op = "getAllFeaturesOfType" /\ ~IsWaterFeatureType(req[r].arg))
    /\ [][ /\ \A e \in cache \ cache' : Later(now, e.expiryTime) \/ MapHas(cache', e.key)
           /\ \A e \in cache :
                 ~Later(now, e.expiryTime) => get(cache', e.key, now).data # Null
         ]_vars

\* an entry that only the timer removes (FEATURE_<id> is never looked up) is
\* gone after its expiry, while an entry written since is live in the store
C13_Witness ==
    \E r \in ConcRequests :
        /\ req[r].pc = "done"
        /\ FeatureKey(req[r].arg) \in req[r].wrote
        /\ ~MapHas(cache, FeatureKey(req[r].arg))
        /\ \E e \in cache : ~Later(now, e.expiryTime)


-----------------------------------------------------------------------------
(* The query builder and the fingerprint (properties of SpecBuild).        *)

-----------------------------------------------------------------------------
(* The cleanup timer (property of SpecConcFair).                           *)

\* key k holds an entry whose expiry has passed
Expired(k) == \E e \in cache : e.key = k /\ Later(now, e.expiryTime)

\* C15: with the interval timer running fairly, an entry whose expiry has
\* passed is eventually removed from the store, whether or not a request
\* reads or writes its key again.
C15_ExpiredEventuallyRemoved ==
    \A k \in ConcKeys : Expired(k) ~> ~Expired(k)

\* a request has stored the feature under FEATURE_<id>, a key no request
\* reads; the entry is gone though no request has evicted it
C15_Witness ==
    /\ now > 0
    /\ \E r \in ConcRequests, id \in ConcIds :
          /\ req[r].pc = "done"
          /\ FeatureKey(id) \in req[r].wrote
          /\ ~MapHas(cache, FeatureKey(id))
    /\ \A r \in ConcRequests, id \in ConcIds : FeatureKey(id) \notin req[r].evicted


-----------------------------------------------------------------------------
(* The built query (properties of SpecBuilder).                            *)

\* the pattern restricting ?item to one type identifier, and the one
\* restricting it to the four of them
SingleType(typeId) == <<63, 105, 116, 101, 109, 32, 119, 100, 116, 58, 80, 51, 49, 47, 119, 100, 116, 58, 80, 50, 55, 57, 42, 32, 119, 100, 58>> \o typeId \o <<46>>
UnionOfTypes ==
    <<86, 65, 76, 85, 69, 83, 32, 63, 116, 121, 112, 101, 73, 100, 32, 123, 119, 100, 58, 81, 50, 51, 51, 57, 55, 32, 119, 100, 58, 81, 49, 50, 51, 50, 51, 32, 119, 100, 58, 81, 49, 51, 49, 54, 56, 49, 32, 119, 100, 58, 81, 52, 48, 50, 50, 125, 32, 63, 105, 116, 101, 109, 32, 119, 100, 116, 58, 80, 51, 49, 47, 119, 100, 116, 58, 80, 50, 55, 57, 42, 32, 63, 116, 121, 112, 101, 73, 100, 46>>
TypeIds == {<<81, 50, 51, 51, 57, 55>>, <<81, 49, 50, 51, 50, 51>>, <<81, 49, 51, 49, 54, 56, 49>>, <<81, 52, 48, 50, 50>>}

\* C16: the built query restricts to a single category's type identifier
\* exactly when the category is LAKE, DAM, RESERVOIR or RIVER; when it is
\* absent or any other value the query restricts to the union of the four
\* identifiers, and a query is built all the same.
C16_TypeRestriction ==
    last.op = "build" =>
        LET type == last.args.type
            only(typeId) ==
                /\ includes(last.text, SingleType(typeId))
                /\ \A other \in TypeIds \ {typeId} : ~includes(last.text, SingleType(other))
                /\ ~includes(last.text, <<86, 65, 76, 85, 69, 83>>)
        IN  /\ type = {LAKE}      => only(<<81, 50, 51, 51, 57, 55>>)
            /\ type = {DAM}       => only(<<81, 49, 50, 51, 50, 51>>)
            /\ type = {RESERVOIR} => only(<<81, 49, 51, 49, 54, 56, 49>>)
            /\ type = {RIVER}     => only(<<81, 52, 48, 50, 50>>)
            /\ type \notin {{LAKE}, {DAM}, {RESERVOIR}, {RIVER}} =>
                  /\ includes(last.text, UnionOfTypes)
                  /\ \A typeId \in TypeIds : ~includes(last.text, SingleType(typeId))

\* a query built for a category that is none of the four, with a region
C16_Witness ==
    /\ last.op = "build"
    /\ last.args.type = {POND}
    /\ last.args.region = {SOFIA}
    /\ includes(last.text, UnionOfTypes)


\* the clauses of the built query
RegionClause(region) ==
    <<70, 73, 76, 84, 69, 82, 40, 67, 79, 78, 84, 65, 73, 78, 83, 40, 76, 67, 65, 83, 69, 40, 63, 114, 101, 103, 105, 111, 110, 76, 97, 98, 101, 108, 41, 44, 32, 76, 67, 65, 83, 69, 40, 34>> \o region \o <<34, 41, 41, 41, 46>>
CapacityClause(minCapacity) ==
    <<70, 73, 76, 84, 69, 82, 40, 63, 99, 97, 112, 97, 99, 105, 116, 121, 32, 62, 61, 32>> \o toString(minCapacity) \o <<41, 46>>
SurfaceAreaClause(minSurfaceArea) ==
    <<70, 73, 76, 84, 69, 82, 40, 63, 115, 117, 114, 102, 97, 99, 101, 65, 114, 101, 97, 32, 62, 61, 32>> \o toString(minSurfaceArea) \o <<41, 46>>
Page(limit, offset) ==
    <<32, 76, 73, 77, 73, 84, 32>> \o toString(limit) \o <<32, 79, 70, 70, 83, 69, 84, 32>> \o toString(offset)

\* C17: the built query contains LIMIT <limit> and OFFSET <offset>, and it
\* contains the region clause, the capacity lower-bound clause and the
\* surface-area lower-bound clause exactly when region, minCapacity and
\* minSurfaceArea respectively are set, whatever the value supplied.
C17_ClausesExactlyWhenSet ==
    last.op = "build" =>
        LET args == last.args
        IN  /\ includes(last.text, Page(IF Given(args.limit) THEN ValueOf(args.limit) ELSE 500,
                                        IF Given(args.offset) THEN ValueOf(args.offset) ELSE 0))
            /\ IF Given(args.region)
               THEN includes(last.text, RegionClause(ValueOf(args.region)))
               ELSE ~includes(last.text, <<63, 114, 101, 103, 105, 111, 110, 76, 97, 98, 101, 108>>)
            /\ IF Given(args.minCapacity)
               THEN includes(last.text, CapacityClause(ValueOf(args.minCapacity)))
               ELSE ~includes(last.text, <<70, 73, 76, 84, 69, 82, 40, 63, 99, 97, 112, 97, 99, 105, 116, 121>>)
            /\ IF Given(args.minSurfaceArea)
               THEN includes(last.text, SurfaceAreaClause(ValueOf(args.minSurfaceArea)))
               ELSE ~includes(last.text, <<70, 73, 76, 84, 69, 82, 40, 63, 115, 117, 114, 102, 97, 99, 101, 65, 114, 101, 97>>)

\* C17, for the values JavaScript takes as true: the built query contains
\* LIMIT <limit> and OFFSET <offset>; it contains each of the three clauses
\* when its filter is a non-empty region or a bound other than 0, and none of
\* a clause when its filter is not given, is the empty string or is 0.
C17_ClausesWhenTruthy ==
    last.op = "build" =>
        LET args == last.args
        IN  /\ includes(last.text, Page(IF Given(args.limit) THEN ValueOf(args.limit) ELSE 500,
                                        IF Given(args.offset) THEN ValueOf(args.offset) ELSE 0))
            /\ IF Given(args.region) /\ ValueOf(args.region) # <<>>
               THEN includes(last.text, RegionClause(ValueOf(args.region)))
               ELSE ~includes(last.text, <<63, 114, 101, 103, 105, 111, 110, 76, 97, 98, 101, 108>>)
            /\ IF Given(args.minCapacity) /\ ValueOf(args.minCapacity) # 0
               THEN includes(last.text, CapacityClause(ValueOf(args.minCapacity)))
               ELSE ~includes(last.text, <<70, 73, 76, 84, 69, 82, 40, 63, 99, 97, 112, 97, 99, 105, 116, 121>>)
            /\ IF Given(args.minSurfaceArea) /\ ValueOf(args.minSurfaceArea) # 0
               THEN includes(last.text, SurfaceAreaClause(ValueOf(args.minSurfaceArea)))
               ELSE ~includes(last.text, <<70, 73, 76, 84, 69, 82, 40, 63, 115, 117, 114, 102, 97, 99, 101, 65, 114, 101, 97>>)

\* a query built with a category, a page, and a capacity bound
C17_Witness ==
    /\ last.op = "build"
    /\ last.args.type = {DAM}
    /\ last.args.limit = {5}
    /\ last.args.offset = {10}
    /\ last.args.minCapacity = {5}
    /\ last.args.region = {}
    /\ includes(last.text, Page(5, 10))
    /\ includes(last.text, CapacityClause(5))

\* a query built with a capacity bound of 0: it has no capacity clause
C17_WitnessZero ==
    /\ last.op = "build"
    /\ last.args.minCapacity = {0}
    /\ ~includes(last.text, <<70, 73, 76, 84, 69, 82, 40, 63, 99, 97, 112, 97, 99, 105, 116, 121>>)


\* ORDER BY <direction>(<variable>), as the built query ends
OrderBy(direction, variable) ==
    <<32, 79, 82, 68, 69, 82, 32, 66, 89, 32>> \o direction \o <<40>> \o variable \o <<41, 32, 76, 73, 77, 73, 84, 32>>

\* the direction asked for: DESC for 'DESC', ASC for every other value
DirectionOf(args) == IF args.sortOrder = {DESC} THEN DESC ELSE ASC

\* C18: the built query is ordered by the variable that holds the mapped sort
\* field, the entity's name (?itemLabel, line 249) when sortBy is 'name' or
\* is not in the table; that variable is one the query binds or projects;
\* the direction is DESC exactly when sortOrder is 'DESC', ASC otherwise.
C18_OrderedByBoundVariable ==
    last.op = "build" =>
        LET args == last.args
            field == IF Given(args.sortBy) THEN ValueOf(args.sortBy) ELSE NAME
            variable ==
                IF field \in {<<115, 117, 114, 102, 97, 99, 101, 65, 114, 101, 97>>, <<99, 97, 112, 97, 99, 105, 116, 121>>, <<119, 105, 100, 116, 104>>, <<108, 101, 110, 103, 116, 104>>}
                THEN <<63>> \o field
                ELSE <<63, 105, 116, 101, 109, 76, 97, 98, 101, 108>>
        IN  /\ includes(last.text, OrderBy(DirectionOf(args), variable))
            /\ variable \in selectVariables \cup whereVariables(args)

\* C18, as far as it holds: the built query is ordered by the variable the
\* table gives for sortBy (?name when sortBy is 'name', absent or not in the
\* table); for surfaceArea, capacity, width and length that variable is one
\* the query projects; the direction is DESC exactly when sortOrder is
\* 'DESC', ASC otherwise.
C18_OrderedAsMapped ==
    last.op = "build" =>
        LET args == last.args
            field == IF Given(args.sortBy) THEN ValueOf(args.sortBy) ELSE NAME
            mapped == field \in {<<115, 117, 114, 102, 97, 99, 101, 65, 114, 101, 97>>, <<99, 97, 112, 97, 99, 105, 116, 121>>, <<119, 105, 100, 116, 104>>, <<108, 101, 110, 103, 116, 104>>}
            variable == IF mapped THEN <<63>> \o field ELSE <<63, 110, 97, 109, 101>>
        IN  /\ includes(last.text, OrderBy(DirectionOf(args), variable))
            /\ ~includes(last.text, OrderBy(IF DirectionOf(args) = DESC THEN ASC ELSE DESC,
                                            variable))
            /\ mapped => variable \in selectVariables

\* a query built for the capacity, descending
C18_Witness ==
    /\ last.op = "build"
    /\ last.args.sortBy = {CAPACITY}
    /\ last.args.sortOrder = {DESC}
    /\ includes(last.text, OrderBy(DESC, <<63, 99, 97, 112, 97, 99, 105, 116, 121>>))

\* a query built with the default order: it is ordered by ?name, a variable
\* that it neither binds nor projects
C18_WitnessName ==
    /\ last.op = "build"
    /\ last.args.sortBy = {}
    /\ includes(last.text, OrderBy(ASC, <<63, 110, 97, 109, 101>>))
    /\ <<63, 110, 97, 109, 101>> \notin selectVariables \cup whereVariables(last.args)


-----------------------------------------------------------------------------
(* The transformed records (properties of SpecTransform).                  *)

\* the one binding of the raw result transformed, and the record made of it
HasBinding ==
    /\ last.op = "transformed"
    /\ last.results.kind = "raw"
    /\ last.results.results # {}
    /\ ValueOf(last.results.results).bindings # {}
    /\ ValueOf(last.results.results).isArray
    /\ Len(ValueOf(ValueOf(last.results.results).bindings)) > 0
TheBinding == ValueOf(ValueOf(last.results.results).bindings)[1]
TheRecord  == last.features.items[1]

\* word occurs in label, letters compared without regard to case
Mentions(label, word) ==
    \E i \in 0..(Len(label) - Len(word)) :
        \A j \in 1..Len(word) :
            \/ label[i + j] = word[j]
            \/ label[i + j] >= 65 /\ label[i + j] <= 90 /\ label[i + j] + 32 = word[j]

\* C19: the record's category is decided by case-insensitive substring tests
\* on the type label in the order dam, reservoir, river, lake, the first that
\* matches winning; a label matching none, or a missing label, gives LAKE;
\* the category is always one of the four.
C19_TypeByFirstMatch ==
    HasBinding =>
        /\ Len(last.features.items) = 1
        /\ TheRecord.type \in {LAKE, DAM, RESERVOIR, RIVER}
        /\ IF TheBinding.typeLabel = {} THEN TheRecord.type = LAKE
           ELSE LET label == ValueOf(TheBinding.typeLabel)
                IN  TheRecord.type =
                        IF Mentions(label, <<100, 97, 109>>) THEN DAM
                        ELSE IF Mentions(label, <<114, 101, 115, 101, 114, 118, 111, 105, 114>>) THEN RESERVOIR
                        ELSE IF Mentions(label, <<114, 105, 118, 101, 114>>) THEN RIVER
                        ELSE LAKE

\* the label 'Reservoir Lake' has given RESERVOIR
C19_Witness ==
    /\ HasBinding
    /\ TheBinding.typeLabel = {<<82, 101, 115, 101, 114, 118, 111, 105, 114, 32, 76, 97, 107, 101>>}
    /\ TheRecord.type = RESERVOIR


Coordinates(lon, lat) == [kind |-> "coordinates", latitude |-> lat, longitude |-> lon]

\* C20: the record carries the coordinates {longitude: lon, latitude: lat}
\* whenever the coord field is present and is Point(<lon> <lat>), for every
\* pair of numbers lon and lat; the coordinates are absent exactly when the
\* coord field is missing or does not match the pattern.
C20_CoordinatesWheneverPoint ==
    HasBinding =>
        /\ \A lon \in Numerals, lat \in Numerals :
              TheBinding.coord = {PointText(lon.text, lat.text)} =>
                  TheRecord.location = Coordinates(lon.value, lat.value)
        /\ TheRecord.location = Null <=>
              (TheBinding.coord = {} \/ TheBinding.coord \subseteq Malformed)

\* C20, as far as it holds: the record carries {longitude: lon, latitude:
\* lat} when the coord field is Point(<lon> <lat>) for numbers lon and lat
\* both other than 0; the coordinates are absent when the coord field is
\* missing or does not match the pattern, and also when it matches with lon
\* or lat being 0 or not a number.
C20_CoordinatesWhenTruthy ==
    HasBinding =>
        /\ \A lon \in Numerals, lat \in Numerals :
              TheBinding.coord = {PointText(lon.text, lat.text)} =>
                  TheRecord.location =
                      IF lon.value.m # 0 /\ lat.value.m # 0
                      THEN Coordinates(lon.value, lat.value)
                      ELSE Null
        /\ (TheBinding.coord = {} \/ TheBinding.coord \subseteq Malformed
            \/ TheBinding.coord = {NOTNUMBERS}) => TheRecord.location = Null

\* the coord 'Point(23.5 42.1)' has given longitude 23.5 and latitude 42.1
C20_Witness ==
    /\ HasBinding
    /\ TheBinding.coord = {PointText(<<50, 51, 46, 53>>, <<52, 50, 46, 49>>)}
    /\ TheRecord.location = Coordinates(Float(235, 0 - 1), Float(421, 0 - 1))

\* the coord 'Point(0 42.1)' has given no coordinates
C20_WitnessZero ==
    /\ HasBinding
    /\ TheBinding.coord = {PointText(<<48>>, <<52, 50, 46, 49>>)}
    /\ TheRecord.location = Null


\* the raw result has no rows: it is null, has no results member or no
\* bindings member, or its bindings is not an array or is an empty one
NoRows(results) ==
    \/ results.kind = "null"
    \/ results.results = {}
    \/ ValueOf(results.results).bindings = {}
    \/ ~ValueOf(results.results).isArray
    \/ Len(ValueOf(ValueOf(results.results).bindings)) = 0

\* C21: transformResults never fails on an empty or malformed raw result:
\* for every value of the transport in which the rows container is missing,
\* malformed or empty, it returns the empty list.
C21_NeverFails ==
    (last.op = "transformed" /\ NoRows(last.results)) =>
        last.features = Features(<<>>)

\* C21, as far as it holds: transformResults returns the empty list for a
\* result with no results member, with no bindings member (or a falsy one)
\* and with an empty bindings array; for a bindings that is not an array, and
\* for null, it throws a TypeError.
C21_EmptyWhenMissingOrEmpty ==
    last.op = "transformed" =>
        /\ last.results \in {RawNoResults, RawNoBindings, Raw(<<>>)} =>
              last.features = Features(<<>>)
        /\ last.results = RawNotAList => last.features = Error(NOTAFUNCTION)
        /\ last.results = Null => last.features = Error(NOPROPERTIES)

\* a result without the bindings member has given the empty list
C21_Witness ==
    /\ last.op = "transformed"
    /\ last.results = RawNoBindings
    /\ last.features = Features(<<>>)

\* a result whose bindings is not an array has made transformResults throw
C21_WitnessNotAList ==
    /\ last.op = "transformed"
    /\ last.results = RawNotAList
    /\ last.features.kind = "error"


-----------------------------------------------------------------------------
(* The resolvers (properties of SpecResolve).                              *)

\* something has failed inside the call of request r, which has ended: its
\* fetch, the transformation of the raw result it got, or the check of its
\* type
FailedInside(r) ==
    \/ Failed(r)
    \/ req[r].raw # {} /\ transformResults(ValueOf(req[r].raw)).kind = "error"
    \/ /\ req[r].op = "waterFeatures"
       /\ usesTypeList(req[r].arg)
       /\ ~IsWaterFeatureType(ValueOf(req[r].arg.type))

\* C22: every failure inside waterFeatures or waterFeature (a failed
\* transport response or any other error raised below the resolver) reaches
\* the caller as an error whose message is the resolver's fixed 'Failed to
\* fetch ...' text; the body the remote end sent is no part of the message;
\* and a call in which nothing has failed returns its result.
C22_FailuresReachCallerGeneric ==
    \A r \in Requests :
        (req[r].pc = "done" /\ req[r].op \in {"waterFeatures", "waterFeature"}) =>
            IF FailedInside(r)
            THEN /\ req[r].outcome = "threw"
                 /\ req[r].result =
                       Error(IF req[r].op = "waterFeatures" THEN FETCHFAILEDMSG
                             ELSE FeatureFailedMsg(req[r].arg))
                 /\ Failed(r) =>
                       ~includes(req[r].result.message, ValueOf(req[r].resp).body.text)
            ELSE /\ req[r].outcome = "returned"
                 /\ req[r].result.kind # "error"

\* a call of waterFeature whose fetch was answered by 'Service Unavailable'
\* has thrown the resolver's own message
C22_Witness ==
    \E r \in Requests :
        /\ req[r].pc = "done"
        /\ req[r].op = "waterFeature"
        /\ Failed(r)
        /\ ValueOf(req[r].resp).body.text = SERVICE_UNAVAILABLE
        /\ req[r].result = Error(FeatureFailedMsg(Q1))

\* a call of waterFeatures in which transformResults threw has thrown the
\* resolver's own message
C22_WitnessTypeError ==
    \E r \in Requests :
        /\ req[r].pc = "done"
        /\ req[r].op = "waterFeatures"
        /\ req[r].resp # {}
        /\ ValueOf(req[r].resp).ok
        /\ req[r].outcome = "threw"
        /\ req[r].result = Error(FETCHFAILEDMSG)


-----------------------------------------------------------------------------
(* The cleanup and get (property of SpecCache).                            *)

\* what the sets and clears made so far leave to be read under k at time t
Readable(k, t) ==
    IF hist[k].kind = "set" /\ ~Later(t, Plus(hist[k].time, hist[k].ttl))
    THEN hist[k].data
    ELSE Null

\* C23: cleanupExpiredEntries is unobservable through get: at every time,
\* now or later, get(k) returns what the sets and clears made so far leave
\* to be read, however many cleanups ran in between; a cleanup changes for
\* no key and no later time what get returns; and the two agree on the
\* boundary: the cleanup removes an entry exactly when get, at that time,
\* takes it as expired, which is when the time is greater than its expiry.
C23_CleanupUnobservable ==
    /\ [](\A k \in ApiKeys, t \in {now, now + 1, now + HalfDay} :
             get(cache, k, t).data = Readable(k, t))
    /\ [][ last'.op = "cleanup" =>
             /\ \A k \in ApiKeys, t \in {now, now + 1, now + HalfDay} :
                   get(cache', k, t).data = get(cache, k, t).data
             /\ \A e \in cache :
                   /\ (e \notin cache') <=> (get(cache, e.key, now).data = Null)
                   /\ (e \notin cache') <=> ((~e.expiryTime.nan) /\ now > e.expiryTime.v)
         ]_vars

\* a cleanup has removed an expired entry and left one that expires at this
\* very time, which get still returns
C23_Witness ==
    /\ last.op = "cleanup"
    /\ last.removed # {}
    /\ \E e \in cache : e.expiryTime = Num(now) /\ get(cache, e.key, now).data = e.data


\* request r, which has ended, was served from the list that was stored
\* under its type's key when it came: it has run no query
ServedFromList(r) ==
    /\ req[r].pc = "done"
    /\ req[r].op = "waterFeatures"
    /\ usesTypeList(req[r].arg)
    /\ req[r].outcome = "returned"
    /\ req[r].text = {}

\* C24: a waterFeatures request served from the stored list of its type
\* (a type, no region and no bound, any sortBy, sortOrder, limit and offset)
\* leaves the entry under ALL_<type> as it was: it has written no key.
C24_ListLeftAsStored ==
    \A r \in Requests : ServedFromList(r) => req[r].wrote = {}

\* the two lists hold the same records, each as often as the other
SameRecords(items1, items2) ==
    /\ Len(items1) = Len(items2)
    /\ \A i \in 1..Len(items1) :
          Cardinality({j \in 1..Len(items1) : items1[j] = items1[i]}) =
          Cardinality({j \in 1..Len(items2) : items2[j] = items1[i]})

\* C24, as far as it holds: a request served from the stored list leaves
\* under ALL_<type> one entry with the expiry it had and the same records;
\* their order is the stored one when no sortBy is given (or one whose values
\* are not numbers), and otherwise the order of the request's sort.
C24_SameRecordsSortedInPlace ==
    [][\A r \in Requests :
          (/\ req[r].pc = "idle"
           /\ req'[r].op = "waterFeatures"
           /\ usesTypeList(req'[r].arg)
           /\ LiveEntries(cache, AllKey(ValueOf(req'[r].arg.type)), now) # {}) =>
              LET key    == AllKey(ValueOf(req'[r].arg.type))
                  before == MapGet(cache, key)
                  after  == MapGet(cache', key)
              IN  /\ req'[r].text = {}
                  /\ Cardinality(EntriesOf(cache', key)) = 1
                  /\ after.expiryTime = before.expiryTime
                  /\ SameRecords(before.data.items, after.data.items)
                  /\ after.data.items = sort(before.data.items, req'[r].arg)
                  /\ req'[r].arg.sortBy \in {{}, {NAME}} => after = before
                  /\ cache' \ {after} = cache \ {before}
      ]_vars

\* a request sorted by capacity was served from the stored list of its type
\* and has left it in another order than the one it was stored in
C24_Witness ==
    \E r \in Requests :
        /\ ServedFromList(r)
        /\ req[r].arg.sortBy = {CAPACITY}
        /\ req[r].wrote = {AllKey(DAM)}
        /\ MapGet(cache, AllKey(DAM)).data.items # transformResults(RawTwo).items
        /\ SameRecords(MapGet(cache, AllKey(DAM)).data.items, transformResults(RawTwo).items)


-----------------------------------------------------------------------------
(* The default TTL (properties of Spec).                                   *)

\* the entries stored without a ttl of their own: the raw results query()
\* caches and the features getWaterFeatureById caches
StoredByDefault == {e \in cache : e.data.kind \in {"raw", "feature"}}

\* C25: every entry stored without an explicit ttl has a finite expiry and
\* is no longer returned by get once that time has passed, whatever the
\* process was configured with, CACHE_TTL not set or not a number included.
C25_DefaultExpiryFinite ==
    \A e \in StoredByDefault :
        /\ ~e.expiryTime.nan
        /\ get(cache, e.key, e.expiryTime.v + 1).data = Null

\* C25, as far as it holds: when CACHE_TTL is set to a number, every entry
\* stored without an explicit ttl expires that long after it was stored, and
\* get returns it no more once that time has passed; when CACHE_TTL is not
\* set or is not a number, such an entry has the expiry NaN and get returns
\* it at every later time.
C25_ExpiresWhenTtlIsANumber ==
    \A e \in StoredByDefault :
        IF defaultTTL.nan
        THEN /\ e.expiryTime.nan
             /\ \A t \in {now, now + HalfDay, now + 40 * HalfDay} :
                   get(cache, e.key, t).data = e.data
        ELSE /\ ~e.expiryTime.nan
             /\ e.expiryTime.v <= now + defaultTTL.v
             /\ get(cache, e.key, e.expiryTime.v).data = e.data
             /\ get(cache, e.key, e.expiryTime.v + 1).data = Null

\* CACHE_TTL is 3600000: a raw result stored by query() an hour ago at most
C25_Witness ==
    /\ defaultTTL = Num(3600000)
    /\ \E e \in StoredByDefault : e.data.kind = "raw" /\ e.expiryTime = Num(now + 3600000)

\* CACHE_TTL is not a number: a raw result stored by query() is still
\* returned more than 12 hours later
C25_WitnessNaN ==
    /\ defaultTTL.nan
    /\ now > HalfDay
    /\ \E r \in Requests :
          /\ req[r].pc = "done"
          /\ req[r].calls = 0
          /\ req[r].raw # {}
          /\ \E e \in StoredByDefault :
                e.key \in req[r].read /\ e.expiryTime.nan /\ {e.data} = req[r].raw


\* request r, which has ended, had the result of its query from the cache
ServedFromQueryCache(r) ==
    /\ req[r].pc = "done"
    /\ req[r].text # {}
    /\ req[r].calls = 0
    /\ req[r].raw # {}

\* the query texts the resolvers run
ResolveTexts ==
    {buildWaterFeaturesQuery(args) : args \in FilterArgs}
    \cup {TypeQuery(DAM)} \cup {buildWaterFeatureByIdQuery(id) : id \in ResolveIds}

\* C26: whenever query(text) is served from the cache, the result returned
\* is one the transport returns for that same text: a result fetched for one
\* text is never returned for another.
C26_CachedResultOfSameText ==
    \A r \in Requests :
        ServedFromQueryCache(r) => ValueOf(req[r].raw) \in Answers(ValueOf(req[r].text))

\* C26, as far as it holds: the result served from the cache is one the
\* transport returns for a text with the same fingerprint as the text asked
\* for; of the texts run here only the two that differ in 'Aa' and 'BB'
\* share a fingerprint.
C26_CachedResultOfSameFingerprint ==
    /\ \A r \in Requests :
          ServedFromQueryCache(r) =>
              \E text \in ResolveTexts :
                  /\ hashString(text) = hashString(ValueOf(req[r].text))
                  /\ ValueOf(req[r].raw) \in Answers(text)
    /\ \A text1 \in ResolveTexts, text2 \in ResolveTexts :
          (text1 # text2 /\ hashString(text1) = hashString(text2)) =>
              {text1, text2} = {buildWaterFeaturesQuery([NoArgs EXCEPT !.region = {AA}]),
                                buildWaterFeaturesQuery([NoArgs EXCEPT !.region = {BB}])}

\* a request for a text was served from the cache with the result of that
\* text's own earlier fetch
C26_Witness ==
    \E r \in Requests :
        /\ ServedFromQueryCache(r)
        /\ req[r].op = "waterFeatures"
        /\ req[r].arg.region = {AA}
        /\ req[r].raw = {RawOne}

\* the request for the region 'BB' was served from the cache with the
\* result fetched for the region 'Aa'
C26_WitnessCollision ==
    \E r \in Requests :
        /\ ServedFromQueryCache(r)
        /\ req[r].op = "waterFeatures"
        /\ req[r].arg.region = {BB}
        /\ req[r].raw = {RawOne}
        /\ RawOne \notin Answers(ValueOf(req[r].text))


-----------------------------------------------------------------------------
(* A second getWaterFeatureById within the default TTL (properties of      *)
(* Spec). A getWaterFeatureById(id) that fetched leaves the raw result     *)
(* under the fingerprint of the single-entity query, expiring after the    *)
(* default TTL; the record it returned is the first of that result.        *)

\* the records of the raw result of an earlier fetch for id that has not
\* expired
FetchedIn(m, id, t) ==
    {transformResults(e.data).items[1] :
        e \in {l \in LiveEntries(m, hashString(buildWaterFeatureByIdQuery(id)), t) :
                  /\ transformResults(l.data).kind = "list"
                  /\ Len(transformResults(l.data).items) > 0}}

FetchedById(id) == FetchedIn(cache, id, now)

C27_WitnessFromList ==
    \E r \in Requests :
        /\ req[r].pc = "done"
        /\ req[r].op = "getWaterFeatureById"
        /\ req[r].calls = 0
        /\ req[r].text = {}
        /\ req[r].result.kind = "feature"
        /\ FetchedById(req[r].arg) # {}
        /\ req[r].result \notin FetchedById(req[r].arg)


-----------------------------------------------------------------------------
(* The three kinds of key (properties of Spec).                            *)

\* key is the decimal rendering of an integer
IsDecimal(key) ==
    /\ key # <<>>
    /\ \A i \in 1..Len(key) : IsDigit(key[i]) \/ (i = 1 /\ key[i] = 45 /\ Len(key) > 1)

\* key is prefix followed by something
StartsWith(key, prefix) ==
    Len(key) >= Len(prefix) /\ SubSeq(key, 1, Len(prefix)) = prefix

\* the query texts run by preloadCache, getAllFeaturesOfType and
\* getWaterFeatureById
StoreTexts ==
    {TypeQuery(type) : type \in AllTypes} \cup {buildWaterFeatureByIdQuery(id) : id \in IdArgs}

\* C28: a fingerprint key is never equal to a key ALL_<type> or
\* FEATURE_<id>, and in every state an entry under a fingerprint holds a raw
\* query result, an entry under ALL_<type> a list of features and an entry
\* under FEATURE_<id> a feature, and there are no other entries; every key a
\* step writes is of the kind of the data it then holds.
C28_KeyKindsApart ==
    /\ [](/\ \A text \in StoreTexts :
                /\ IsDecimal(hashString(text))
                /\ ~StartsWith(hashString(text), AllKey(<<>>))
                /\ ~StartsWith(hashString(text), FeatureKey(<<>>))
          /\ \A type \in TypeArgs : ~IsDecimal(AllKey(type)) /\ ~StartsWith(AllKey(type), FeatureKey(<<>>))
          /\ \A id \in IdArgs : ~IsDecimal(FeatureKey(id)) /\ ~StartsWith(FeatureKey(id), AllKey(<<>>))
          /\ \A e \in cache :
                /\ e.data.kind \in {"raw", "list", "feature"}
                /\ e.data.kind = "raw" <=> IsDecimal(e.key)
                /\ e.data.kind = "raw" <=> \E text \in StoreTexts : e.key = hashString(text)
                /\ e.data.kind = "list" <=> \E type \in AllTypes : e.key = AllKey(type)
                /\ e.data.kind = "feature" <=> \E id \in IdArgs : e.key = FeatureKey(id))
    /\ [][\A k \in Written(cache, cache') :
             \A e \in EntriesOf(cache, k), f \in EntriesOf(cache', k) : e.data.kind = f.data.kind
         ]_vars

\* the three kinds of entry side by side: a raw result under a fingerprint,
\* a list under an ALL_ key and a feature under a FEATURE_ key
C28_Witness ==
    /\ \E e \in cache : e.data.kind = "raw" /\ IsDecimal(e.key)
    /\ \E e \in cache : e.data.kind = "list" /\ StartsWith(e.key, AllKey(<<>>))
    /\ \E e \in cache : e.data.kind = "feature" /\ StartsWith(e.key, FeatureKey(<<>>))
    /\ \E r \in Requests : req[r].pc = "done" /\ req[r].wrote # {}


-----------------------------------------------------------------------------
(* The fingerprint's value (properties of SpecHash).                       *)

RECURSIVE DecimalValue(_, _, _, _)
\* the integer that the digits of key from place i on add to acc, each
\* digit counted with sign
DecimalValue(key, i, sign, acc) ==
    IF i > Len(key) THEN acc
    ELSE DecimalValue(key, i + 1, sign, acc * 10 + sign * (key[i] - 48))

\* the integer a decimal rendering stands for
ValueOfDecimal(key) ==
    IF Head(key) = 45 THEN DecimalValue(key, 2, -1, 0) ELSE DecimalValue(key, 1, 1, 0)

\* key is a decimal rendering as toString gives it: no sign but '-', no
\* leading zero, no '-0'
IsRendering(key) ==
    /\ IsDecimal(key)
    /\ LET digits == IF Head(key) = 45 THEN Tail(key) ELSE key
       IN  /\ Len(digits) <= 10
           /\ Head(digits) = 48 => key = <<48>>

\* (31 * h + code) wrapped to a signed 32-bit integer
NextH(h, code) == Int32(31 * Hi16(h), 31 * Lo16(h) + code)

\* C29: hashString(str) is the decimal rendering of h_n, where h_0 = 0 and
\* h_(i+1) = (31 * h_i + code(str[i])) wrapped to a signed 32-bit integer:
\* the empty string gives "0", and the value for a string is the step from
\* the value for the string without its last code unit, so that every code
\* unit is counted once, in order; the value is within [-2^31, 2^31 - 1].
C29_HashIsWrappedPolynomial ==
    last.op = "hashed" =>
        /\ IsRendering(last.key)
        /\ ValueOfDecimal(last.key) >= -2147483647 - 1
        /\ ValueOfDecimal(last.key) <= 2147483647
        /\ IF last.str = <<>>
           THEN last.key = <<48>>
           ELSE LET front == SubSeq(last.str, 1, Len(last.str) - 1)
                IN  /\ front \in HashInputs
                    /\ IsRendering(hashString(front))
                    /\ ValueOfDecimal(last.key) =
                          NextH(ValueOfDecimal(hashString(front)), last.str[Len(last.str)])

\* a string long enough for the sum to have wrapped was hashed, to a
\* negative value
C29_Witness ==
    /\ last.op = "hashed"
    /\ Len(last.str) > 8
    /\ Head(last.key) = 45
    /\ Len(last.key) = 11

\* the empty string was hashed
C29_WitnessEmpty ==
    /\ last.op = "hashed"
    /\ last.str = <<>>
    /\ last.key = <<48>>

====
